---- MODULE Spec2Model ----
(***************************************************************************)
(* Model of the helix session queue (controller) and of the Ollama model   *)
(* instance (runner).                                                      *)
(*                                                                         *)
(*   SpecQueue    PushSessionQueue / ShiftSessionQueue on the queue        *)
(*   SpecRebuild  loadSessionQueues against a session store                *)
(*   SpecRunner   the model instance main loop, processInteraction and the *)
(*                cmd.Wait goroutine                                       *)
(*   SpecResponses, SpecRecovery, SpecConvert                              *)
(*                the controller's worker-response handler, its restart    *)
(*                and ConvertSessionToTask                                 *)
(*   SpecActivity, SpecJobHistory                                          *)
(*                the model instance next to the clock; its job history    *)
(***************************************************************************)
EXTENDS Integers, Sequences, FiniteSets, TLC

\* ------------------------------------------------------------------ bounds
MaxSessionID == 3        \* session ids are 1..MaxSessionID
MaxInteractions == 2     \* longest interaction list of a stored session
MaxQueue == 3            \* PushSessionQueue is not called on a longer queue
NumCallers == 2          \* goroutines that call the controller concurrently
MaxCalls == 4            \* controller calls they make altogether

\* ------------------------------------------------------- session universe
SessionIDs == 1..MaxSessionID

Modes == {"Create", "Finetune"}
Types == {"Text", "Image"}
ModelNames == {"m1", "m2"}
LoraDirs == {"", "lora1"}

CreatorTypeUser == "user"
CreatorTypeSystem == "system"

\* The types of the frames a worker answers with.
WorkerTaskResponseTypeStream == "stream"
WorkerTaskResponseTypeResult == "result"

\* Interaction lists of a session: alternating user / system turns, opened by
\* the user; the empty list is the one the store invariant forbids.
RECURSIVE Alternating(_)
Alternating(n) ==
    IF n = 0 THEN <<>>
    ELSE Append(Alternating(n - 1),
                IF n % 2 = 1 THEN CreatorTypeUser ELSE CreatorTypeSystem)

InteractionLists == {Alternating(n) : n \in 0..MaxInteractions}

Session(id, mode, type, model, lora, inter) ==
    [ID |-> id, Mode |-> mode, Type |-> type, ModelName |-> model,
     LoraDir |-> lora, Interactions |-> inter]

\* Attribute combinations of the sessions handed to PushSessionQueue: a plain
\* text inference, an image inference with an adapter, a fine-tune of another
\* model.  Between them every attribute takes two values.
SessionKinds ==
    { <<"Create", "Text", "m1", "">>,
      <<"Create", "Image", "m1", "lora1">>,
      <<"Finetune", "Text", "m2", "">> }

\* Sessions handed to PushSessionQueue: awaiting a response.
PushPool ==
    {Session(id, k[1], k[2], k[3], k[4], <<CreatorTypeUser>>) :
        id \in SessionIDs, k \in SessionKinds}

\* Sessions the store can hold: plain text inferences with every interaction
\* list.
StorePool ==
    [ID : SessionIDs, Mode : {"Create"}, Type : {"Text"}, ModelName : {"m1"},
     LoraDir : {""}, Interactions : InteractionLists]

\* types.SessionFilter: the empty string means "not specified".  A runner
\* asks for work for the model m1 or for any model.
Filters ==
    [Mode : Modes \cup {""}, Type : Types \cup {""},
     ModelName : {"", "m1"}, LoraDir : LoraDirs]

VARIABLES
    sessionQueue,    \* Controller.sessionQueue
    store,           \* what Store.GetSessions returns, newest first
    lastCall         \* the last controller call and what it returned

varsController == <<sessionQueue, store, lastCall>>

VARIABLES
    sessionQueueMtx, \* Controller.sessionQueueMtx: 0 when free, else its holder
    pcCall,          \* per calling goroutine: "idle", "lock", "shift", "push", "load"
    callLocal,       \* per calling goroutine: the call's arguments and locals
    callCount,       \* number of calls made so far
    entered,         \* per session id: entries a Push or a load has put in the queue
    returned,        \* per session id: times a Shift has returned it
    rebuilt          \* a loadSessionQueues has replaced the queue

varsCallers ==
    <<sessionQueueMtx, pcCall, callLocal, callCount, entered, returned, rebuilt>>

VARIABLES
    host,            \* the runner process: "up", "exit1" (os.Exit) or "panic"
    proc,            \* the ollama subprocess: "none", "running", "exitedOk",
                     \* "exitedErr", "killed" (by Stop)
    pcWait,          \* the cmd.Wait goroutine; "done" = finishCh closed
    pcMain,          \* the main loop goroutine
    workCh,          \* i.workCh
    currentRequest,  \* i.currentRequest, <<>> for nil
    nextID,          \* number of the next request getNextRequest returns
    inferenceReq,    \* the request being processed (the main loop's `session`)
    buf,             \* processInteraction's local buf
    toolCalls,       \* processInteraction's local toolCalls map
    response,        \* processInteraction's local response / usage (blocking)
    err,             \* the error processInteraction returned
    delivered,       \* the deltas stream.Recv has returned for this request
    outcome,         \* "none" while in flight, then "ok" or "err"
    frames           \* what responseHandler was called with for this request

VARIABLES
    pcRun,           \* Run: "new", "probe", "sleep", "warmup", "nil", "error"
    runErr,          \* Run's variable err, which the warm-up goroutines share
    pulls,           \* warm-up goroutines whose Pull has not returned yet
    pulled,          \* the session getNextRequest returned, <<>> for none
    workChClosed,    \* close(i.workCh) has happened
    cancelled,       \* i.cancel() has happened
    stopRet,         \* what the last Stop returned, "none" before the first
    exitedDuring     \* SessionID in flight when the subprocess died, else 0

varsLifecycle ==
    <<pcRun, runErr, pulls, pulled, workChClosed, cancelled, stopRet,
      exitedDuring>>

VARIABLES
    now,             \* time.Now(), in seconds
    lastActivity,    \* i.lastActivity, ZeroTime for the zero time.Time
    instanceTTL,     \* Config.Runtimes.Ollama.InstanceTTL, in seconds
    initialRequest,  \* i.initialRequest, <<>> for nil
    stateRet         \* what the last GetState returned

varsClock == <<now, lastActivity, instanceTTL, initialRequest, stateRet>>

varsRunner ==
    <<host, proc, pcWait, pcMain, workCh, currentRequest, nextID, inferenceReq, buf,
      toolCalls, response, err, delivered, outcome, frames, varsLifecycle,
      varsClock>>

VARIABLES
    activeSessions,    \* Controller.activeSessions: session id -> session
    activeTextStreams, \* Controller.activeTextStreams: the ids that have a stream
    responseRet,       \* what the last HandleWorkerResponse returned
    taskRet,           \* what the last ConvertSessionToTask returned
    inFlightAtCrash    \* ids the store still awaits a response for and that
                       \* were off the queue when the scheduler last went down

varsActive ==
    <<activeSessions, activeTextStreams, responseRet, taskRet, inFlightAtCrash>>

VARIABLES
    jobHistory,           \* i.jobHistory
    jobHistoryBufferSize, \* i.runnerOptions.JobHistoryBufferSize
    historyRet            \* what the last addJobToHistory returned

varsHistory == <<jobHistory, jobHistoryBufferSize, historyRet>>

VARIABLES
    crawler,   \* knowledge.Source.Web.Crawler: Enabled and MaxPages
    crawlRet   \* the page limit the last Crawl worked with

varsCrawler == <<crawler, crawlRet>>

varsOther == <<varsActive, varsHistory, varsCrawler>>

vars == <<varsController, varsCallers, varsRunner, varsOther>>

\* --------------------------------------------------------- ShiftSessionQueue
\* The three `continue` tests of the scan loop.
SessionMatches(filter, session) ==
    /\ ~(filter.Mode # "" /\ session.Mode # filter.Mode)
    /\ ~(filter.Type # "" /\ session.Type # filter.Type)
    /\ ~(filter.ModelName # "" /\ session.ModelName # filter.ModelName)

\* A scan that hands back the last element when nothing matched.
RECURSIVE ShiftScanFallsToLast(_, _, _)
ShiftScanFallsToLast(q, filter, i) ==
    IF i > Len(q) THEN Len(q)
    ELSE IF SessionMatches(filter, q[i]) THEN i
    ELSE ShiftScanFallsToLast(q, filter, i + 1)

\* for i, session := range c.sessionQueue: index of the first session that
\* reaches the removal, 0 when the loop falls through.
RECURSIVE ShiftScan(_, _, _)
ShiftScan(q, filter, i) ==
    IF i > Len(q) THEN 0
    ELSE IF SessionMatches(filter, q[i]) THEN i
    ELSE ShiftScan(q, filter, i + 1)

\* A removal that is off by one: it drops the element after the match.
RemoveAtNext(q, i) == SubSeq(q, 1, i) \o SubSeq(q, i + 2, Len(q))

\* append(c.sessionQueue[:i], c.sessionQueue[i+1:]...)
RemoveAt(q, i) == SubSeq(q, 1, i - 1) \o SubSeq(q, i + 1, Len(q))

ShiftSessionQueue(filter) ==
    LET i == ShiftScan(sessionQueue, filter, 1) IN
    /\ sessionQueue' = IF i = 0 THEN sessionQueue ELSE RemoveAt(sessionQueue, i)
    /\ lastCall' = [op |-> "shift", existing |-> FALSE, err |-> FALSE, idx |-> i, repeat |-> FALSE,
                    ret |-> IF i = 0 THEN <<>> ELSE <<sessionQueue[i]>>]
    /\ UNCHANGED <<store, varsCallers, varsRunner, varsOther>>

\* ---------------------------------------------------------- PushSessionQueue
\* The loop that builds newQueue, one element per existing element.
RECURSIVE PushLoop(_, _, _)
PushLoop(q, session, i) ==
    IF i > Len(q) THEN <<>>
    ELSE <<IF q[i].ID = session.ID THEN session ELSE q[i]>>
         \o PushLoop(q, session, i + 1)

\* A loop that replaces the entry and forgets to set `existing`.
PushExistingFlagNotSet(q, session) == FALSE

PushExisting(q, session) == \E i \in 1..Len(q) : q[i].ID = session.ID

\* A push that drops the queued entry and re-appends the session at the tail.
PushNewQueueAtTail(q, session) ==
    Append(SelectSeq(q, LAMBDA e : e.ID # session.ID), session)

PushNewQueue(q, session) ==
    IF PushExisting(q, session) THEN PushLoop(q, session, 1)
    ELSE Append(PushLoop(q, session, 1), session)

PushSessionQueue(session) ==
    /\ Len(PushNewQueue(sessionQueue, session)) <= MaxQueue
    /\ sessionQueue' = PushNewQueue(sessionQueue, session)
    /\ lastCall' = [op |-> "push", existing |-> PushExisting(sessionQueue, session),
                    err |-> FALSE, idx |-> 0, repeat |-> FALSE, ret |-> <<>>]
    /\ UNCHANGED <<store, varsCallers, varsRunner, varsOther>>

\* --------------------------------------------------------- loadSessionQueues
\* A load that starts from the current queue instead of an empty slice.
LoadStartKeepsQueue(q) == q

\* sessionQueue := []*types.Session{}
LoadStart(q) == <<>>

\* A test that also passes over a session with a single interaction.
LoadSkipsSingleInteraction(session) ==
    \/ Len(session.Interactions) <= 1
    \/ session.Interactions[Len(session.Interactions)] = CreatorTypeSystem

\* A test that passes over answered sessions only.
LoadSkipsAnsweredOnly(session) ==
    /\ Len(session.Interactions) # 0
    /\ session.Interactions[Len(session.Interactions)] = CreatorTypeSystem

\* The two `continue` tests of the loop body.
LoadSkips(session) ==
    \/ Len(session.Interactions) = 0
    \/ session.Interactions[Len(session.Interactions)] = CreatorTypeSystem

\* A load that walks the store from index 0 upwards.
RECURSIVE LoadLoopForward(_, _, _)
LoadLoopForward(sessions, i, acc) ==
    IF i < 1 THEN acc
    ELSE LET session == sessions[Len(sessions) + 1 - i] IN
         LoadLoopForward(sessions, i - 1,
                         IF LoadSkips(session) THEN acc ELSE Append(acc, session))

\* for i := len(sessions) - 1; i >= 0; i-- { ... append(sessionQueue, session) }
RECURSIVE LoadLoop(_, _, _)
LoadLoop(sessions, i, acc) ==
    IF i < 1 THEN acc
    ELSE LoadLoop(sessions, i - 1,
                  IF LoadSkips(sessions[i]) THEN acc ELSE Append(acc, sessions[i]))

\* GetSessions answered: the queue is replaced by what the loop collected.
loadSessionQueues ==
    /\ sessionQueue' = LoadLoop(store, Len(store), LoadStart(sessionQueue))
    /\ lastCall' = [op |-> "load", existing |-> FALSE, err |-> FALSE, idx |-> 0,
                    repeat |-> (lastCall.op = "load" /\ ~lastCall.err),
                    ret |-> <<>>]
    /\ UNCHANGED <<store, varsCallers, varsRunner, varsOther>>

\* GetSessions failed: the error is returned before the queue is assigned.
loadSessionQueuesStoreError ==
    /\ lastCall' = [op |-> "load", existing |-> FALSE, err |-> TRUE, idx |-> 0,
                    repeat |-> FALSE, ret |-> <<>>]
    /\ UNCHANGED <<sessionQueue, store, varsCallers, varsRunner, varsOther>>

NoCall ==
    [op |-> "none", existing |-> FALSE, err |-> FALSE, idx |-> 0,
     repeat |-> FALSE, ret |-> <<>>]

\* ------------------------------------------------------ ConvertSessionToTask
\* What model.GetPrompt can render.
Prompts == {"p1", "p2"}

\* What model.GetLanguageModel / model.GetImageModel and model.GetPrompt hand
\* back to ConvertSessionToTask: the lookup's error, then the rendered prompt
\* or the rendering's error.
ModelLookups ==
    [modelErr : {"", "no model"}, prompt : Prompts, promptErr : {"", "no prompt"}]

NoTask == [called |-> FALSE, session |-> <<>>, lookup |-> <<>>, task |-> <<>>, err |-> ""]

\* types.WorkerTask
WorkerTask(session, prompt) ==
    [SessionID |-> session.ID, Session |-> session, Prompt |-> prompt]

\* A conversion that answers a model error with a task without a prompt.
ConvertReturnIgnoresError(session, lookup) ==
    IF session = <<>> THEN [task |-> <<>>, err |-> ""]
    ELSE LET s == session[1] IN
         IF s.Mode = "Create" /\ s.Type \in {"Text", "Image"}
         THEN [task |-> <<WorkerTask(s, IF lookup.modelErr # "" \/ lookup.promptErr # ""
                                        THEN "" ELSE lookup.prompt)>>,
               err |-> ""]
         ELSE [task |-> <<>>, err |-> ""]

\* What ConvertSessionToTask returns; `session` is <<>> for nil.
ConvertReturn(session, lookup) ==
    IF session = <<>> THEN [task |-> <<>>, err |-> ""]
    ELSE LET s == session[1] IN
         IF s.Mode = "Create" /\ s.Type \in {"Text", "Image"}
         THEN IF lookup.modelErr # ""
              THEN [task |-> <<>>, err |-> lookup.modelErr]
              ELSE IF lookup.promptErr # ""
              THEN [task |-> <<>>, err |-> lookup.promptErr]
              ELSE [task |-> <<WorkerTask(s, lookup.prompt)>>,
                    err |-> ""]
         ELSE [task |-> <<>>, err |-> ""]

ConvertSessionToTask(session, lookup) ==
    /\ taskRet' = [called |-> TRUE, session |-> session, lookup |-> <<lookup>>,
                   task |-> ConvertReturn(session, lookup).task,
                   err |-> ConvertReturn(session, lookup).err]
    /\ UNCHANGED <<varsController, varsCallers, varsRunner, varsHistory, varsCrawler,
                   activeSessions, activeTextStreams, responseRet,
                   inFlightAtCrash>>

\* ----------------------------------------------------------- active sessions
\* types.Interaction of a session a worker is answering.
Interaction(creator, message, finished) ==
    [Creator |-> creator, Message |-> message, Finished |-> finished]

\* A session handed to a worker: the user's prompt and the system interaction
\* the worker's frames are to fill.
ActiveSession(id, mode, type, model) ==
    [ID |-> id, Mode |-> mode, Type |-> type, ModelName |-> model, LoraDir |-> "",
     Interactions |-> << Interaction(CreatorTypeUser, "hi", TRUE),
                         Interaction(CreatorTypeSystem, "", FALSE) >>]

ActiveKinds ==
    { <<"Create", "Text", "m1">>, <<"Create", "Image", "m1">>,
      <<"Finetune", "Text", "m2">> }

ActivePool ==
    {ActiveSession(id, k[1], k[2], k[3]) : id \in SessionIDs, k \in ActiveKinds}

\* What model.GetLanguageModel and sessionModel.GetTextStream hand back to
\* AddActiveSession.
StreamLookups == {"ok", "no model", "no stream"}

\* types.WorkerTaskResponse
TaskResponses ==
    [SessionID : SessionIDs,
     Type : {WorkerTaskResponseTypeStream, WorkerTaskResponseTypeResult},
     Message : {"he", "llo"}]

NoTaskResponse == [called |-> FALSE, frame |-> <<>>, resp |-> <<>>, err |-> ""]

AddActiveSession(session, lookup) ==
    /\ activeSessions' =
           [id \in DOMAIN activeSessions \cup {session.ID} |->
               IF id = session.ID THEN session ELSE activeSessions[id]]
    /\ activeTextStreams' =
           IF session.Type = "Text" /\ session.Mode = "Create" /\ lookup = "ok"
           THEN activeTextStreams \cup {session.ID}
           ELSE activeTextStreams
    /\ UNCHANGED <<varsController, varsCallers, varsRunner, varsHistory, varsCrawler,
                   responseRet, taskRet, inFlightAtCrash>>

\* <<session>> when the id is active, <<>> for the "session not found" error.
GetActiveSession(id) ==
    IF id \in DOMAIN activeSessions THEN <<activeSessions[id]>> ELSE <<>>

RemoveActiveSession(id) ==
    /\ activeSessions' =
           IF id \in DOMAIN activeSessions
           THEN [i \in DOMAIN activeSessions \ {id} |-> activeSessions[i]]
           ELSE activeSessions
    /\ UNCHANGED <<varsController, varsCallers, varsRunner, varsHistory, varsCrawler,
                   activeTextStreams, responseRet, taskRet, inFlightAtCrash>>

RemoveActiveTextStream(id) ==
    /\ activeTextStreams' = activeTextStreams \ {id}
    /\ UNCHANGED <<varsController, varsCallers, varsRunner, varsHistory, varsCrawler,
                   activeSessions, responseRet, taskRet, inFlightAtCrash>>

\* Its body is commented out: it answers nil, nil.
handleWorkerResponseLanguageInference(taskResponse, session) ==
    [called |-> TRUE, frame |-> <<taskResponse>>, resp |-> <<>>, err |-> ""]

handleWorkerResponseImageInference(taskResponse, session) ==
    [called |-> TRUE, frame |-> <<taskResponse>>, resp |-> <<taskResponse>>,
     err |-> ""]

\* A handler that takes a response for an unknown session as the session's
\* end and unloads its text stream.
HandleWorkerResponseUnloadsStream(taskResponse) ==
    LET found == GetActiveSession(taskResponse.SessionID) IN
    /\ responseRet' =
           IF found = <<>>
           THEN [called |-> TRUE, frame |-> <<taskResponse>>, resp |-> <<>>,
                 err |-> "session not found"]
           ELSE IF found[1].Mode = "Create" /\ found[1].Type = "Text"
           THEN handleWorkerResponseLanguageInference(taskResponse, found[1])
           ELSE IF found[1].Mode = "Create" /\ found[1].Type = "Image"
           THEN handleWorkerResponseImageInference(taskResponse, found[1])
           ELSE [called |-> TRUE, frame |-> <<taskResponse>>, resp |-> <<>>,
                 err |-> ""]
    /\ activeTextStreams' =
           IF found = <<>> THEN activeTextStreams \ {taskResponse.SessionID}
           ELSE activeTextStreams
    /\ UNCHANGED <<varsController, varsCallers, varsRunner, varsHistory, varsCrawler,
                   activeSessions, taskRet, inFlightAtCrash>>

HandleWorkerResponse(taskResponse) ==
    LET found == GetActiveSession(taskResponse.SessionID) IN
    /\ responseRet' =
           IF found = <<>>
           THEN [called |-> TRUE, frame |-> <<taskResponse>>, resp |-> <<>>,
                 err |-> "session not found"]
           ELSE IF found[1].Mode = "Create" /\ found[1].Type = "Text"
           THEN handleWorkerResponseLanguageInference(taskResponse, found[1])
           ELSE IF found[1].Mode = "Create" /\ found[1].Type = "Image"
           THEN handleWorkerResponseImageInference(taskResponse, found[1])
           ELSE [called |-> TRUE, frame |-> <<taskResponse>>, resp |-> <<>>,
                 err |-> ""]
    /\ UNCHANGED <<varsController, varsCallers, varsRunner, varsHistory, varsCrawler,
                   activeSessions, activeTextStreams, taskRet, inFlightAtCrash>>

\* ------------------------------------------------------------------- restart
\* The scheduler process goes down and comes up again: what it held in memory
\* is gone, the store is what it was.
Restart ==
    /\ inFlightAtCrash' =
           {store[i].ID : i \in {j \in 1..Len(store) :
               /\ store[j].Interactions # <<>>
               /\ store[j].Interactions[Len(store[j].Interactions)] = CreatorTypeUser
               /\ \A k \in 1..Len(sessionQueue) : sessionQueue[k].ID # store[j].ID}}
    /\ sessionQueue' = <<>>
    /\ activeSessions' = <<>>
    /\ activeTextStreams' = {}
    /\ lastCall' = [NoCall EXCEPT !.op = "restart"]
    /\ UNCHANGED <<store, varsCallers, varsRunner, varsHistory, varsCrawler, responseRet,
                   taskRet>>

InitActive ==
    /\ activeSessions = <<>>
    /\ activeTextStreams = {}
    /\ responseRet = NoTaskResponse
    /\ taskRet = NoTask
    /\ inFlightAtCrash = {}

\* ------------------------------------------- the queue calls, step by step
\* The goroutines (API handlers, runner polls, start-up) that call the
\* controller.  Each call locks sessionQueueMtx, reads the queue, writes the
\* queue and unlocks (defer).
Callers == 1..NumCallers

\* What the callers push, and the filters their Shifts carry.
CallerSessions ==
    {Session(id, "Create", "Text", "m1", "", <<CreatorTypeUser>>) : id \in SessionIDs}

CallerFilters ==
    { [Mode |-> "", Type |-> "", ModelName |-> "", LoraDir |-> ""],
      [Mode |-> "", Type |-> "Image", ModelName |-> "", LoraDir |-> ""] }

\* What GetSessions answers while the callers run: session 1 awaits an
\* answer, session 2 has been answered.
CallerStore ==
    << Session(2, "Create", "Text", "m1", "", <<CreatorTypeUser, CreatorTypeSystem>>),
       Session(1, "Create", "Text", "m1", "", <<CreatorTypeUser>>) >>

NoLocals ==
    [op |-> "none", session |-> <<>>, filter |-> <<>>, idx |-> 0,
     ret |-> <<>>, existing |-> FALSE, newQueue |-> <<>>, waited |-> FALSE]

\* The function has returned: its locals are gone, its result stays.
Returned(l) == [NoLocals EXCEPT !.op = l.op, !.ret = l.ret, !.waited = l.waited]

\* A lock that does not wait for its holder.
LockNoWait(c) == sessionQueueMtx' = c

\* c.sessionQueueMtx.Lock()
Lock(c) == sessionQueueMtx = 0 /\ sessionQueueMtx' = c

\* defer c.sessionQueueMtx.Unlock()
Unlock(c) == sessionQueueMtx' = 0

\* A goroutine calls ShiftSessionQueue, PushSessionQueue or
\* loadSessionQueues and arrives at the Lock.
CallShift(c, filter) ==
    /\ pcCall[c] = "idle" /\ callCount < MaxCalls
    /\ pcCall' = [pcCall EXCEPT ![c] = "lock"]
    /\ callLocal' = [callLocal EXCEPT ![c] =
            [NoLocals EXCEPT !.op = "shift", !.filter = <<filter>>,
                             !.waited = (sessionQueueMtx # 0)]]
    /\ callCount' = callCount + 1
    /\ UNCHANGED <<varsController, varsRunner, varsOther, sessionQueueMtx, entered,
                   returned, rebuilt>>

CallPush(c, session) ==
    /\ pcCall[c] = "idle" /\ callCount < MaxCalls
    /\ pcCall' = [pcCall EXCEPT ![c] = "lock"]
    /\ callLocal' = [callLocal EXCEPT ![c] =
            [NoLocals EXCEPT !.op = "push", !.session = <<session>>,
                             !.waited = (sessionQueueMtx # 0)]]
    /\ callCount' = callCount + 1
    /\ UNCHANGED <<varsController, varsRunner, varsOther, sessionQueueMtx, entered,
                   returned, rebuilt>>

CallLoad(c) ==
    /\ pcCall[c] = "idle" /\ callCount < MaxCalls
    /\ pcCall' = [pcCall EXCEPT ![c] = "lock"]
    /\ callLocal' = [callLocal EXCEPT ![c] =
            [NoLocals EXCEPT !.op = "load", !.waited = (sessionQueueMtx # 0)]]
    /\ callCount' = callCount + 1
    /\ UNCHANGED <<varsController, varsRunner, varsOther, sessionQueueMtx, entered,
                   returned, rebuilt>>

\* ShiftSessionQueue: Lock, then the scan loop up to the matching session.
ShiftLocksAndScans(c) ==
    /\ pcCall[c] = "lock" /\ callLocal[c].op = "shift"
    /\ Lock(c)
    /\ LET i == ShiftScan(sessionQueue, callLocal[c].filter[1], 1) IN
       callLocal' = [callLocal EXCEPT ![c].idx = i,
                        ![c].ret = IF i = 0 THEN <<>> ELSE <<sessionQueue[i]>>]
    /\ pcCall' = [pcCall EXCEPT ![c] = "shift"]
    /\ UNCHANGED <<varsController, varsRunner, varsOther, callCount, entered, returned, rebuilt>>

\* ... then the append that removes index i (out of range: the slice
\* expression panics), the return and the deferred Unlock.
ShiftRemovesAndUnlocks(c) ==
    /\ pcCall[c] = "shift"
    /\ LET i == callLocal[c].idx IN
       IF i = 0
       THEN /\ pcCall' = [pcCall EXCEPT ![c] = "idle"]
            /\ Unlock(c)
            /\ UNCHANGED <<sessionQueue, returned>>
       ELSE IF i > Len(sessionQueue)
       THEN /\ pcCall' = [pcCall EXCEPT ![c] = "panic"]
            /\ UNCHANGED <<sessionQueue, returned, sessionQueueMtx>>
       ELSE /\ sessionQueue' = RemoveAt(sessionQueue, i)
            /\ returned' = [returned EXCEPT ![callLocal[c].ret[1].ID] = @ + 1]
            /\ pcCall' = [pcCall EXCEPT ![c] = "idle"]
            /\ Unlock(c)
    /\ callLocal' = [callLocal EXCEPT ![c] = Returned(callLocal[c])]
    /\ UNCHANGED <<store, lastCall, varsRunner, varsOther, callCount, entered, rebuilt>>

\* PushSessionQueue: Lock, then the loop that builds newQueue.
PushLocksAndBuilds(c) ==
    /\ pcCall[c] = "lock" /\ callLocal[c].op = "push"
    /\ Len(PushNewQueue(sessionQueue, callLocal[c].session[1])) <= MaxQueue
    /\ Lock(c)
    /\ callLocal' = [callLocal EXCEPT
            ![c].existing = PushExisting(sessionQueue, callLocal[c].session[1]),
            ![c].newQueue = PushNewQueue(sessionQueue, callLocal[c].session[1])]
    /\ pcCall' = [pcCall EXCEPT ![c] = "push"]
    /\ UNCHANGED <<varsController, varsRunner, varsOther, callCount, entered, returned, rebuilt>>

\* ... then c.sessionQueue = newQueue, the return and the deferred Unlock.
PushAssignsAndUnlocks(c) ==
    /\ pcCall[c] = "push"
    /\ sessionQueue' = callLocal[c].newQueue
    /\ entered' = [entered EXCEPT ![callLocal[c].session[1].ID] =
                      IF callLocal[c].existing THEN @ ELSE @ + 1]
    /\ pcCall' = [pcCall EXCEPT ![c] = "idle"]
    /\ Unlock(c)
    /\ callLocal' = [callLocal EXCEPT ![c] = Returned(callLocal[c])]
    /\ UNCHANGED <<store, lastCall, varsRunner, varsOther, callCount, returned, rebuilt>>

\* loadSessionQueues: Lock, GetSessions, then the loop over the answer.
LoadLocksAndBuilds(c) ==
    /\ pcCall[c] = "lock" /\ callLocal[c].op = "load"
    /\ Lock(c)
    /\ callLocal' = [callLocal EXCEPT
            ![c].newQueue = LoadLoop(store, Len(store), LoadStart(sessionQueue))]
    /\ pcCall' = [pcCall EXCEPT ![c] = "load"]
    /\ UNCHANGED <<varsController, varsRunner, varsOther, callCount, entered, returned, rebuilt>>

\* ... then c.sessionQueue = sessionQueue, the return and the deferred Unlock.
LoadAssignsAndUnlocks(c) ==
    /\ pcCall[c] = "load"
    /\ sessionQueue' = callLocal[c].newQueue
    /\ entered' = [id \in SessionIDs |->
                      entered[id] +
                      Cardinality({k \in 1..Len(callLocal[c].newQueue) :
                                      callLocal[c].newQueue[k].ID = id})]
    /\ rebuilt' = TRUE
    /\ pcCall' = [pcCall EXCEPT ![c] = "idle"]
    /\ Unlock(c)
    /\ callLocal' = [callLocal EXCEPT ![c] = Returned(callLocal[c])]
    /\ UNCHANGED <<store, lastCall, varsRunner, varsOther, callCount, returned>>

\* No call is under way.
InitCallers ==
    /\ sessionQueueMtx = 0
    /\ pcCall = [c \in Callers |-> "idle"]
    /\ callLocal = [c \in Callers |-> NoLocals]
    /\ callCount = 0
    /\ entered = [id \in SessionIDs |-> 0]
    /\ returned = [id \in SessionIDs |-> 0]
    /\ rebuilt = FALSE

\* ======================================================== model instance
\* ------------------------------------------------------------------ bounds
MaxRequests == 2         \* requests getNextRequest hands out
MaxDeltas == 2           \* deltas one stream delivers before it ends
MaxWarmup == 1           \* configured warm-up models
MaxTime == 7             \* seconds the clock runs
MaxTTL == 5              \* largest configured InstanceTTL, in seconds

\* --------------------------------------------------------------- universe
WorkChCapacity == 1

\* openai.ToolCall, reduced to the fields the instance reads or forwards.
ToolCall(id, name, args) == [ID |-> id, Name |-> name, Arguments |-> args]

\* What one stream.Recv can deliver: response.Choices[0].Delta.
Deltas ==
    { [Content |-> "he", ToolCalls |-> <<>>],
      [Content |-> "llo", ToolCalls |-> <<ToolCall("t1", "f", "")>>],
      [Content |-> "", ToolCalls |-> <<ToolCall("t1", "", "part1")>>] }

\* What CreateChatCompletion can answer: response.Choices[0].Message and
\* response.Usage.
Completions ==
    { [Content |-> "hello", ToolCalls |-> <<>>, ToolCallID |-> "",
       PromptTokens |-> 3, CompletionTokens |-> 4, TotalTokens |-> 7] }

\* time.Since(start).Milliseconds() of a blocking call.
Durations == {5}

\* Errors of the client calls and of stream.Recv.
TransportErrors == {"unexpected EOF", "dial tcp: connection refused"}

\* fmt.Errorf("failed to get response from inference API: %w", err)
WrapAPIError(e) == "failed to get response from inference API: " \o e

\* strings.Contains(err.Error(), "connection refused")
ContainsConnectionRefused(e) ==
    e \in {"dial tcp: connection refused", WrapAPIError("dial tcp: connection refused")}

\* cmd.Wait's error and the tail of stderrBuf.
ExitError == "exit status 1"
StderrTail == "CUDA error"

\* types.RunnerLLMInferenceRequest number n.
Request(n, stream) ==
    [SessionID |-> n, InteractionID |-> 10 + n, Owner |-> "owner", Stream |-> stream]

\* types.Usage{}
ZeroUsage ==
    [PromptTokens |-> 0, CompletionTokens |-> 0, TotalTokens |-> 0, DurationMs |-> 0]

\* ------------------------------------------------------ frame constructors
\* The response responseProcessor hands to the response handler.
responseProcessor(req, usage, content, calls, toolCallID, done) ==
    [Type |-> IF done THEN WorkerTaskResponseTypeResult
              ELSE WorkerTaskResponseTypeStream,
     SessionID |-> req.SessionID, InteractionID |-> req.InteractionID,
     Owner |-> req.Owner, Done |-> done, Message |-> content, Usage |-> usage,
     ToolCalls |-> calls, ToolCallID |-> toolCallID, Error |-> ""]

\* A stream-done frame that is not flagged done.
emitStreamDoneNotDone(req) ==
    [Type |-> WorkerTaskResponseTypeStream,
     SessionID |-> req.SessionID, InteractionID |-> 0,
     Owner |-> req.Owner, Done |-> FALSE, Message |-> "", Usage |-> ZeroUsage,
     ToolCalls |-> <<>>, ToolCallID |-> "", Error |-> ""]

\* The response emitStreamDone hands to the response handler; the fields it
\* does not set keep their zero value.
emitStreamDone(req) ==
    [Type |-> WorkerTaskResponseTypeStream,
     SessionID |-> req.SessionID, InteractionID |-> 0,
     Owner |-> req.Owner, Done |-> TRUE, Message |-> "", Usage |-> ZeroUsage,
     ToolCalls |-> <<>>, ToolCallID |-> "", Error |-> ""]

\* The response errorSession hands to the response handler.
errorSession(req, e) ==
    [Type |-> WorkerTaskResponseTypeResult,
     SessionID |-> req.SessionID, InteractionID |-> 0,
     Owner |-> req.Owner, Done |-> FALSE, Message |-> "", Usage |-> ZeroUsage,
     ToolCalls |-> <<>>, ToolCallID |-> "", Error |-> e]

\* A buffer that keeps only the latest delta.
AppendToBufOverwrites(b, content) == content

\* buf += response.Choices[0].Delta.Content
AppendToBuf(b, content) == b \o content

\* for _, toolCall := range delta.ToolCalls { toolCalls[toolCall.ID] = toolCall }
RECURSIVE MergeToolCalls(_, _)
MergeToolCalls(m, calls) ==
    IF calls = <<>> THEN m
    ELSE LET c == Head(calls) IN
         MergeToolCalls([id \in DOMAIN m \cup {c.ID} |->
                            IF id = c.ID THEN c ELSE m[id]],
                        Tail(calls))

\* for _, toolCall := range toolCalls { append }: map iteration order is not
\* fixed, so every ordering of the values is a possible array.
ToolCallArrays(m) ==
    LET n == Cardinality(DOMAIN m) IN
    {a \in [1..n -> {m[id] : id \in DOMAIN m}] :
        \A i, j \in 1..n : i # j => a[i] # a[j]}

NoResponse ==
    [Content |-> "", ToolCalls |-> <<>>, ToolCallID |-> "", Usage |-> ZeroUsage]

EmptyToolCalls == [id \in {} |-> ToolCall("", "", "")]

\* ------------------------------------------------------------------ clock
\* The zero time.Time; real times are positive.
ZeroTime == 0

\* time.Since(t) at the time `t2`.
Since(t, t2) == t2 - t

\* The duration after which the subprocess start is given up
\* (context.WithTimeout(i.ctx, 10*time.Second)), in seconds.
StartTimeout == 10

\* GetState has not been called.
NoState == [called |-> FALSE, err |-> "", Stale |-> FALSE]

\* GetState's stale flag: false for the zero time, else elapsed > TTL.
StaleFlagAtTTL(la, t, ttl) ==
    IF la = ZeroTime THEN FALSE ELSE Since(la, t) >= ttl

StaleFlag(la, t, ttl) ==
    IF la = ZeroTime THEN FALSE ELSE Since(la, t) > ttl

\* -------------------------------------------------------------- job history
MaxHistory == 2          \* largest JobHistoryBufferSize

\* What data.GetSessionSummary hands back to addJobToHistory: a summary of the
\* session, or an error.
SessionSummaries ==
    [SessionID : SessionIDs, InteractionID : 1..MaxInteractions]

SummaryResults == [summary : SessionSummaries, err : {"", "no interactions"}]

NoHistoryCall == [called |-> FALSE, result |-> <<>>, err |-> ""]

\* A history that gives up its newest entry when it is full.
HistoryAfterAddDropsNewest(history, summary, size) ==
    LET longer == <<summary>> \o history IN
    IF Len(longer) > size THEN SubSeq(longer, 2, Len(longer)) ELSE longer

\* i.jobHistory after addJobToHistory has put `summary` in.
HistoryAfterAdd(history, summary, size) ==
    LET longer == <<summary>> \o history IN
    IF Len(longer) > size THEN SubSeq(longer, 1, Len(longer) - 1) ELSE longer

addJobToHistory(result) ==
    /\ IF result.err # ""
       THEN /\ historyRet' = [called |-> TRUE, result |-> <<result>>,
                                err |-> result.err]
            /\ UNCHANGED jobHistory
       ELSE /\ jobHistory' =
                   HistoryAfterAdd(jobHistory, result.summary, jobHistoryBufferSize)
            /\ historyRet' = [called |-> TRUE, result |-> <<result>>, err |-> ""]
    /\ UNCHANGED <<varsController, varsCallers, varsRunner, varsActive, varsCrawler,
                   jobHistoryBufferSize>>

\* The constructor's jobHistory: []*types.SessionSummary{}.
\* ------------------------------------------------------------ web crawler
\* const defaultMaxPages = 500: how many pages to crawl before stopping.
defaultMaxPages == 500

\* The configured MaxPages values drawn: below zero, zero, the small values,
\* and the values on both sides of the default.
MaxExcessPages == 2

ConfiguredPages == (-1)..(defaultMaxPages + MaxExcessPages)

CrawlerSettings == [Enabled : BOOLEAN, MaxPages : ConfiguredPages]

NoCrawl == [called |-> FALSE, Enabled |-> FALSE, MaxPages |-> 0, maxPages |-> 0]

\* int32(n) of a Go int: the value itself from -2^31 to 2^31 - 1, which
\* every setting drawn here lies in.
ToInt32(n) == n

\* The value of Crawl's local maxPages once the if/else of lines 513-525
\* has run: 1 when crawling is disabled; otherwise the assignment of 500
\* for a setting above 500 is followed by the second if/else, which assigns
\* the default for a setting of 0 and the setting itself for any other.
maxPages(settings) ==
    IF ~settings.Enabled
    THEN 1
    ELSE LET capped == IF settings.MaxPages > 500 THEN 500 ELSE 0
         IN  IF settings.MaxPages = 0
             THEN defaultMaxPages
             ELSE ToInt32(settings.MaxPages)

\* Default.Crawl, as far as the page limit goes.
Crawl ==
    /\ crawlRet' = [called |-> TRUE, Enabled |-> crawler.Enabled,
                    MaxPages |-> crawler.MaxPages,
                    maxPages |-> maxPages(crawler)]
    /\ UNCHANGED <<varsController, varsCallers, varsRunner, varsActive,
                   varsHistory, crawler>>

InitCrawler ==
    /\ crawler = [Enabled |-> FALSE, MaxPages |-> 0]
    /\ crawlRet = NoCrawl

InitHistory ==
    /\ jobHistory = <<>>
    /\ jobHistoryBufferSize = MaxHistory
    /\ historyRet = NoHistoryCall

\* Stale(): time.Since(i.lastActivity) > InstanceTTL.
Stale == Since(lastActivity, now) > instanceTTL

\* ------------------------------------------------------------------- Init
\* NewOllamaInferenceModelInstance has returned: no subprocess, no goroutine,
\* an open and empty work channel ...
InitProcess ==
    /\ host = "up"
    /\ proc = "none"
    /\ pcWait = "none"
    /\ pcMain = "none"
    /\ workCh = <<>>
    /\ currentRequest = <<>>
    /\ nextID = 1
    /\ inferenceReq = Request(0, FALSE)
    /\ buf = ""
    /\ toolCalls = EmptyToolCalls
    /\ response = NoResponse
    /\ err = ""
    /\ delivered = <<>>
    /\ outcome = "none"
    /\ frames = <<>>
    /\ pcRun = "new"
    /\ runErr = ""
    /\ pulls = 0
    /\ pulled = <<>>
    /\ workChClosed = FALSE
    /\ cancelled = FALSE
    /\ stopRet = "none"
    /\ exitedDuring = 0

\* ... lastActivity: time.Now(); initialRequest is not assigned.
InitClock ==
    /\ now = 1
    /\ lastActivity = now
    /\ instanceTTL = MaxTTL
    /\ initialRequest = <<>>
    /\ stateRet = NoState

InitRunner == InitProcess /\ InitClock

\* -------------------------------------------------------------------- Run
\* LookPath, GetFreePort, StderrPipe or cmd.Start failed: Run returns the
\* error before i.currentCommand is assigned.
RunFailsToStart ==
    /\ host = "up" /\ pcRun = "new"
    /\ pcRun' = "retStartError"
    /\ UNCHANGED <<varsController, varsCallers, varsOther, varsClock, host, proc, pcWait, pcMain,
                   workCh, currentRequest, nextID, inferenceReq, buf,
                   toolCalls, response, err, delivered, outcome, frames,
                   runErr, pulls, pulled, workChClosed, cancelled, stopRet,
                   exitedDuring>>

\* cmd.Start succeeded: i.currentCommand = cmd, the cmd.Wait goroutine is
\* started and Run begins to poll.
RunStartsSubprocess ==
    /\ host = "up" /\ pcRun = "new"
    /\ proc' = "running"
    /\ pcWait' = "wait"
    /\ pcRun' = "probe"
    /\ UNCHANGED <<varsController, varsCallers, varsOther, varsClock, host, pcMain, workCh,
                   currentRequest, nextID, inferenceReq, buf, toolCalls,
                   response, err, delivered, outcome, frames, runErr, pulls,
                   pulled, workChClosed, cancelled, stopRet, exitedDuring>>

\* The GET failed or did not answer 200: sleep 100 ms and poll again.
ProbeNotReady ==
    /\ host = "up" /\ pcRun = "probe"
    /\ pcRun' = "probeSleep"
    /\ UNCHANGED <<varsController, varsCallers, varsOther, varsClock, host, proc, pcWait, pcMain,
                   workCh, currentRequest, nextID, inferenceReq, buf,
                   toolCalls, response, err, delivered, outcome, frames,
                   runErr, pulls, pulled, workChClosed, cancelled, stopRet,
                   exitedDuring>>

ProbeSleepOver ==
    /\ host = "up" /\ pcRun = "probeSleep"
    /\ pcRun' = "probe"
    /\ UNCHANGED <<varsController, varsCallers, varsOther, varsClock, host, proc, pcWait, pcMain,
                   workCh, currentRequest, nextID, inferenceReq, buf,
                   toolCalls, response, err, delivered, outcome, frames,
                   runErr, pulls, pulled, workChClosed, cancelled, stopRet,
                   exitedDuring>>

\* The running subprocess answered 200: break WAIT.
ProbeReady ==
    /\ host = "up" /\ pcRun = "probe" /\ proc = "running"
    /\ pcRun' = "warmup"
    /\ UNCHANGED <<varsController, varsCallers, varsOther, varsClock, host, proc, pcWait, pcMain,
                   workCh, currentRequest, nextID, inferenceReq, buf,
                   toolCalls, response, err, delivered, outcome, frames,
                   runErr, pulls, pulled, workChClosed, cancelled, stopRet,
                   exitedDuring>>

\* case <-startCtx.Done(): StartTimeout has passed during the polling (or
\* i.ctx was cancelled); Run returns the timeout error.  Its deferred cancel
\* is the one of startCtx, i.ctx and the subprocess are left as they are.
ProbeTimeout ==
    /\ host = "up" /\ pcRun \in {"probe", "probeSleep"}
    /\ pcRun' = "retTimeout"
    /\ UNCHANGED <<varsController, varsCallers, varsOther, varsClock, host, proc, pcWait, pcMain,
                   workCh, currentRequest, nextID, inferenceReq, buf,
                   toolCalls, response, err, delivered, outcome, frames,
                   runErr, pulls, pulled, workChClosed, cancelled, stopRet,
                   exitedDuring>>

\* One goroutine per configured warm-up model is started.
StartWarmup(n) ==
    /\ host = "up" /\ pcRun = "warmup"
    /\ pulls' = n
    /\ pcRun' = "check"
    /\ UNCHANGED <<varsController, varsCallers, varsOther, varsClock, host, proc, pcWait, pcMain,
                   workCh, currentRequest, nextID, inferenceReq, buf,
                   toolCalls, response, err, delivered, outcome, frames,
                   runErr, pulled, workChClosed, cancelled, stopRet,
                   exitedDuring>>

\* A warm-up goroutine: err = i.ollamaClient.Pull(...) assigns Run's err,
\* nil or not.  Once Run has returned nothing reads err any more, and the
\* assignment is left out of the state.
PullReturns(e) ==
    /\ host = "up" /\ pulls > 0
    /\ pulls' = pulls - 1
    /\ runErr' = IF pcRun = "check" THEN e ELSE runErr
    /\ UNCHANGED <<varsController, varsCallers, varsOther, varsClock, host, proc, pcWait, pcMain,
                   workCh, currentRequest, nextID, inferenceReq, buf,
                   toolCalls, response, err, delivered, outcome, frames,
                   pcRun, pulled, workChClosed, cancelled, stopRet,
                   exitedDuring>>

\* if err != nil { return "error pulling model" }; otherwise the main loop
\* goroutine is started and Run returns nil.
RunChecksPullError ==
    /\ host = "up" /\ pcRun = "check"
    /\ IF runErr # ""
       THEN pcRun' = "retPullError" /\ pcMain' = pcMain
       ELSE pcRun' = "retNil" /\ pcMain' = "select"
    /\ UNCHANGED <<varsController, varsCallers, varsOther, varsClock, host, proc, pcWait, workCh,
                   currentRequest, nextID, inferenceReq, buf, toolCalls,
                   response, err, delivered, outcome, frames, runErr, pulls,
                   pulled, workChClosed, cancelled, stopRet, exitedDuring>>

\* ------------------------------------------------------------- main loop
\* case <-i.ctx.Done(): return
MainLoopCancelled ==
    /\ host = "up" /\ pcMain = "select" /\ cancelled
    /\ pcMain' = "exited"
    /\ UNCHANGED <<varsController, varsCallers, varsOther, varsLifecycle, varsClock, host, proc,
                   pcWait, workCh, currentRequest, nextID, inferenceReq, buf,
                   toolCalls, response, err, delivered, outcome, frames>>

\* case session, ok := <-i.workCh with !ok: the channel is closed and
\* drained; return.
ReceiveClosed ==
    /\ host = "up" /\ pcMain = "select" /\ workChClosed /\ workCh = <<>>
    /\ pcMain' = "exited"
    /\ UNCHANGED <<varsController, varsCallers, varsOther, varsLifecycle, varsClock, host, proc,
                   pcWait, workCh, currentRequest, nextID, inferenceReq, buf,
                   toolCalls, response, err, delivered, outcome, frames>>

\* A default branch that leaves the loop once the instance is stale.
GetNextRequestNoneExitsWhenStale ==
    /\ host = "up" /\ pcMain = "select"
    /\ workCh = <<>> /\ ~workChClosed /\ ~cancelled
    /\ pcMain' = IF Since(lastActivity, now) > instanceTTL THEN "exited" ELSE "sleep"
    /\ UNCHANGED <<varsController, varsCallers, varsOther, varsLifecycle, varsClock, host, proc,
                   pcWait, workCh, currentRequest, nextID, inferenceReq, buf,
                   toolCalls, response, err, delivered, outcome, frames>>

\* select, default branch (no other case is ready): getNextRequest returned
\* an error or no session.
GetNextRequestNone ==
    /\ host = "up" /\ pcMain = "select"
    /\ workCh = <<>> /\ ~workChClosed /\ ~cancelled
    /\ pcMain' = "sleep"
    /\ UNCHANGED <<varsController, varsCallers, varsOther, varsLifecycle, varsClock, host, proc,
                   pcWait, workCh, currentRequest, nextID, inferenceReq, buf,
                   toolCalls, response, err, delivered, outcome, frames>>

\* time.Sleep(300 * time.Millisecond); continue
SleepOver ==
    /\ host = "up" /\ pcMain = "sleep"
    /\ pcMain' = "select"
    /\ UNCHANGED <<varsController, varsCallers, varsOther, varsLifecycle, varsClock, host, proc,
                   pcWait, workCh, currentRequest, nextID, inferenceReq, buf,
                   toolCalls, response, err, delivered, outcome, frames>>

\* A loop that asks for the next request whatever it is doing.
GetNextRequestSessionAnytime(stream) ==
    /\ host = "up" /\ pcMain \in {"select", "clear"}
    /\ workCh = <<>> /\ ~workChClosed /\ ~cancelled
    /\ nextID <= MaxRequests
    /\ pulled' = <<Request(nextID, stream)>>
    /\ nextID' = nextID + 1
    /\ pcMain' = "send"
    /\ UNCHANGED <<varsController, varsCallers, varsOther, varsClock, host, proc, pcWait, workCh,
                   currentRequest, inferenceReq, buf, toolCalls, response,
                   err, delivered, outcome, frames, pcRun, runErr, pulls,
                   workChClosed, cancelled, stopRet, exitedDuring>>

\* select, default branch: getNextRequest returned a session.
GetNextRequestSession(stream) ==
    /\ host = "up" /\ pcMain = "select"
    /\ workCh = <<>> /\ ~workChClosed /\ ~cancelled
    /\ nextID <= MaxRequests
    /\ pulled' = <<Request(nextID, stream)>>
    /\ nextID' = nextID + 1
    /\ pcMain' = "send"
    /\ UNCHANGED <<varsController, varsCallers, varsOther, varsClock, host, proc, pcWait, workCh,
                   currentRequest, inferenceReq, buf, toolCalls, response,
                   err, delivered, outcome, frames, pcRun, runErr, pulls,
                   workChClosed, cancelled, stopRet, exitedDuring>>

\* i.workCh <- session: a send on a closed channel panics.  The channel is
\* empty here, so the send does not block.
SendWork ==
    /\ host = "up" /\ pcMain = "send"
    /\ Len(workCh) < WorkChCapacity
    /\ IF workChClosed
       THEN host' = "panic" /\ UNCHANGED <<workCh, pulled, pcMain>>
       ELSE /\ workCh' = Append(workCh, pulled[1])
            /\ pulled' = <<>>
            /\ pcMain' = "select"
            /\ host' = host
    /\ UNCHANGED <<varsController, varsCallers, varsOther, varsClock, proc, pcWait, currentRequest,
                   nextID, inferenceReq, buf, toolCalls, response, err,
                   delivered, outcome, frames, pcRun, runErr, pulls,
                   workChClosed, cancelled, stopRet, exitedDuring>>

\* case session, ok := <-i.workCh: the request becomes the current request
\* and lastActivity is set.  A closed channel still hands out what it holds.
ReceiveWork ==
    /\ host = "up" /\ pcMain = "select" /\ workCh # <<>>
    /\ inferenceReq' = Head(workCh)
    /\ workCh' = Tail(workCh)
    /\ currentRequest' = <<Head(workCh)>>
    /\ lastActivity' = now
    /\ pcMain' = "process"
    /\ buf' = "" /\ toolCalls' = EmptyToolCalls /\ response' = NoResponse
    /\ err' = "" /\ delivered' = <<>> /\ outcome' = "none" /\ frames' = <<>>
    /\ UNCHANGED <<varsController, varsCallers, varsOther, varsLifecycle, host, proc, pcWait, nextID,
                   now, instanceTTL, initialRequest, stateRet>>

\* processInteraction, stream case: CreateChatCompletionStream succeeded.
OpenStream ==
    /\ host = "up" /\ pcMain = "process" /\ inferenceReq.Stream
    /\ pcMain' = "recv"
    /\ UNCHANGED <<varsController, varsCallers, varsOther, varsLifecycle, varsClock, host, proc, pcWait, workCh, currentRequest,
                   nextID, inferenceReq, buf, toolCalls, response, err,
                   delivered, outcome, frames>>

\* processInteraction: CreateChatCompletionStream or CreateChatCompletion
\* failed; the wrapped error is returned without a frame.
CallFails(e) ==
    /\ host = "up" /\ pcMain = "process"
    /\ err' = WrapAPIError(e)
    /\ pcMain' = "failed"
    /\ UNCHANGED <<varsController, varsCallers, varsOther, varsLifecycle, varsClock, host, proc, pcWait, workCh, currentRequest,
                   nextID, inferenceReq, buf, toolCalls, response, delivered,
                   outcome, frames>>

\* stream.Recv returned a delta: buffer it, merge its tool calls, forward it.
RecvDelta(d) ==
    /\ host = "up" /\ pcMain = "recv"
    /\ Len(delivered) < MaxDeltas
    /\ delivered' = Append(delivered, d)
    /\ buf' = AppendToBuf(buf, d.Content)
    /\ toolCalls' = MergeToolCalls(toolCalls, d.ToolCalls)
    /\ frames' = Append(frames,
                    responseProcessor(inferenceReq, ZeroUsage, d.Content, d.ToolCalls,
                                      "", FALSE))
    /\ UNCHANGED <<varsController, varsCallers, varsOther, varsLifecycle, varsClock, host, proc, pcWait, pcMain, workCh,
                   currentRequest, nextID, inferenceReq, response, err,
                   outcome>>

\* stream.Recv returned io.EOF: emitStreamDone.
RecvEOF ==
    /\ host = "up" /\ pcMain = "recv"
    /\ frames' = Append(frames, emitStreamDone(inferenceReq))
    /\ pcMain' = "streamResult"
    /\ UNCHANGED <<varsController, varsCallers, varsOther, varsLifecycle, varsClock, host, proc, pcWait, workCh, currentRequest,
                   nextID, inferenceReq, buf, toolCalls, response, err,
                   delivered, outcome>>

\* ... then the Result frame with the whole buffer and the collected tool
\* calls; processInteraction returns nil.
StreamResult ==
    /\ host = "up" /\ pcMain = "streamResult"
    /\ \E arr \in ToolCallArrays(toolCalls) :
          frames' = Append(frames,
                       responseProcessor(inferenceReq, ZeroUsage, buf, arr, "", TRUE))
    /\ pcMain' = "clear"
    /\ outcome' = "ok"
    /\ UNCHANGED <<varsController, varsCallers, varsOther, varsLifecycle, varsClock, host, proc, pcWait, workCh, currentRequest,
                   nextID, inferenceReq, buf, toolCalls, response, err,
                   delivered>>

\* stream.Recv returned another error: errorSession, then the error is
\* returned to the main loop.
RecvError(e) ==
    /\ host = "up" /\ pcMain = "recv"
    /\ frames' = Append(frames, errorSession(inferenceReq, e))
    /\ err' = e
    /\ pcMain' = "failed"
    /\ UNCHANGED <<varsController, varsCallers, varsOther, varsLifecycle, varsClock, host, proc, pcWait, workCh, currentRequest,
                   nextID, inferenceReq, buf, toolCalls, response, delivered,
                   outcome>>

\* processInteraction, default case: CreateChatCompletion answered;
\* emitStreamDone and the measured usage.
BlockingCall(c, ms) ==
    /\ host = "up" /\ pcMain = "process" /\ ~inferenceReq.Stream
    /\ frames' = Append(frames, emitStreamDone(inferenceReq))
    /\ response' = [Content |-> c.Content, ToolCalls |-> c.ToolCalls,
                    ToolCallID |-> c.ToolCallID,
                    Usage |-> [PromptTokens |-> c.PromptTokens,
                               CompletionTokens |-> c.CompletionTokens,
                               TotalTokens |-> c.TotalTokens,
                               DurationMs |-> ms]]
    /\ pcMain' = "blockingResult"
    /\ UNCHANGED <<varsController, varsCallers, varsOther, varsLifecycle, varsClock, host, proc, pcWait, workCh, currentRequest,
                   nextID, inferenceReq, buf, toolCalls, err, delivered,
                   outcome>>

\* ... then the Result frame with the full content; processInteraction
\* returns nil.
BlockingResult ==
    /\ host = "up" /\ pcMain = "blockingResult"
    /\ frames' = Append(frames,
                    responseProcessor(inferenceReq, response.Usage, response.Content,
                                      response.ToolCalls, response.ToolCallID,
                                      TRUE))
    /\ pcMain' = "clear"
    /\ outcome' = "ok"
    /\ UNCHANGED <<varsController, varsCallers, varsOther, varsLifecycle, varsClock, host, proc, pcWait, workCh, currentRequest,
                   nextID, inferenceReq, buf, toolCalls, response, err,
                   delivered>>

\* An error branch that leaves the process before it reports the error.
HandleErrorExitsFirst ==
    /\ host = "up" /\ pcMain = "failed"
    /\ outcome' = "err"
    /\ IF ContainsConnectionRefused(err)
       THEN host' = "exit1" /\ pcMain' = pcMain /\ frames' = frames
       ELSE /\ host' = host /\ pcMain' = "clear"
            /\ frames' = Append(frames, errorSession(inferenceReq, err))
    /\ UNCHANGED <<varsController, varsCallers, varsOther, varsLifecycle, varsClock, proc, pcWait, workCh, currentRequest,
                   nextID, inferenceReq, buf, toolCalls, response, err,
                   delivered>>

\* The main loop's error branch: errorSession, and os.Exit(1) when the error
\* text contains "connection refused".
HandleError ==
    /\ host = "up" /\ pcMain = "failed"
    /\ frames' = Append(frames, errorSession(inferenceReq, err))
    /\ outcome' = "err"
    /\ IF ContainsConnectionRefused(err)
       THEN host' = "exit1" /\ pcMain' = pcMain
       ELSE host' = host /\ pcMain' = "clear"
    /\ UNCHANGED <<varsController, varsCallers, varsOther, varsLifecycle, varsClock, proc, pcWait, workCh, currentRequest,
                   nextID, inferenceReq, buf, toolCalls, response, err,
                   delivered>>

\* i.currentRequest = nil
ClearCurrentRequest ==
    /\ host = "up" /\ pcMain = "clear"
    /\ currentRequest' = <<>>
    /\ pcMain' = "select"
    /\ UNCHANGED <<varsController, varsCallers, varsOther, varsLifecycle, varsClock, host, proc, pcWait, workCh, nextID,
                   inferenceReq, buf, toolCalls, response, err, delivered,
                   outcome, frames>>

\* ----------------------------------------------------- cmd.Wait goroutine
\* The SessionID of the request in flight, 0 when there is none.
InFlight == IF currentRequest = <<>> THEN 0 ELSE currentRequest[1].SessionID

\* The subprocess exits, cleanly or not.
SubprocessExits(state) ==
    /\ host = "up" /\ proc = "running"
    /\ proc' = state
    /\ exitedDuring' = IF state = "exitedErr" THEN InFlight ELSE exitedDuring
    /\ UNCHANGED <<varsController, varsCallers, varsOther, varsClock, host, pcWait, pcMain, workCh,
                   currentRequest, nextID, inferenceReq, buf, toolCalls,
                   response, err, delivered, outcome, frames, pcRun, runErr,
                   pulls, pulled, workChClosed, cancelled, stopRet>>

\* cmd.Wait returns: with an error the goroutine goes on to look at the
\* current request, without one it returns and finishCh is closed.
WaitReturns ==
    /\ host = "up" /\ pcWait = "wait" /\ proc # "running"
    /\ pcWait' = IF proc \in {"exitedErr", "killed"} THEN "check" ELSE "done"
    /\ UNCHANGED <<varsController, varsCallers, varsOther, varsLifecycle, varsClock, host, proc, pcMain, workCh, currentRequest,
                   nextID, inferenceReq, buf, toolCalls, response, err,
                   delivered, outcome, frames>>

\* if i.currentRequest != nil
WaitChecksCurrentRequest ==
    /\ host = "up" /\ pcWait = "check"
    /\ pcWait' = IF currentRequest # <<>> THEN "emit" ELSE "done"
    /\ UNCHANGED <<varsController, varsCallers, varsOther, varsLifecycle, varsClock, host, proc, pcMain, workCh, currentRequest,
                   nextID, inferenceReq, buf, toolCalls, response, err,
                   delivered, outcome, frames>>

\* i.errorSession(i.currentRequest, ...): the field is read again; if the main
\* loop has cleared it meanwhile, errorSession dereferences nil.
WaitErrorSession ==
    /\ host = "up" /\ pcWait = "emit"
    /\ IF currentRequest = <<>>
       THEN host' = "panic" /\ pcWait' = pcWait /\ frames' = frames
       ELSE /\ frames' = Append(frames,
                            errorSession(currentRequest[1],
                                ExitError \o " from cmd - " \o StderrTail))
            /\ pcWait' = "done"
            /\ host' = host
    /\ UNCHANGED <<varsController, varsCallers, varsOther, varsLifecycle, varsClock, proc, pcMain, workCh, currentRequest,
                   nextID, inferenceReq, buf, toolCalls, response, err,
                   delivered, outcome>>

\* ------------------------------------------------------------------- Stop
\* What killProcessTree(pid) returns.
KillProcessTreeOutcomes == {"ok", "error"}

\* A Stop without the test of i.currentCommand: it reads the Process of a
\* nil command.
StopWithoutCommandCheck(kill) ==
    /\ host = "up"
    /\ IF proc = "none"
       THEN /\ host' = "panic"
            /\ UNCHANGED <<stopRet, proc, workChClosed, cancelled, exitedDuring>>
       ELSE IF kill = "error"
       THEN /\ stopRet' = "killError"
            /\ UNCHANGED <<host, proc, workChClosed, cancelled, exitedDuring>>
       ELSE /\ proc' = IF proc = "running" THEN "killed" ELSE proc
            /\ exitedDuring' = IF proc = "running" THEN InFlight
                               ELSE exitedDuring
            /\ IF workChClosed
               THEN /\ host' = "panic"
                    /\ UNCHANGED <<workChClosed, cancelled, stopRet>>
               ELSE /\ workChClosed' = TRUE
                    /\ cancelled' = TRUE
                    /\ stopRet' = "ok"
                    /\ host' = host
    /\ UNCHANGED <<varsController, varsCallers, varsOther, varsClock, pcWait, pcMain, workCh,
                   currentRequest, nextID, inferenceReq, buf, toolCalls,
                   response, err, delivered, outcome, frames, pcRun, runErr,
                   pulls, pulled>>

\* Stop: an error without a subprocess; the error of killProcessTree; else
\* the tree is killed, the work channel closed (closing a closed channel
\* panics) and the context cancelled.
Stop(kill) ==
    /\ host = "up"
    /\ IF proc = "none"
       THEN /\ stopRet' = "noProcess"
            /\ UNCHANGED <<host, proc, workChClosed, cancelled, exitedDuring>>
       ELSE IF kill = "error"
       THEN /\ stopRet' = "killError"
            /\ UNCHANGED <<host, proc, workChClosed, cancelled, exitedDuring>>
       ELSE /\ proc' = IF proc = "running" THEN "killed" ELSE proc
            /\ exitedDuring' = IF proc = "running" THEN InFlight
                               ELSE exitedDuring
            /\ IF workChClosed
               THEN /\ host' = "panic"
                    /\ UNCHANGED <<workChClosed, cancelled, stopRet>>
               ELSE /\ workChClosed' = TRUE
                    /\ cancelled' = TRUE
                    /\ stopRet' = "ok"
                    /\ host' = host
    /\ UNCHANGED <<varsController, varsCallers, varsOther, varsClock, pcWait, pcMain, workCh,
                   currentRequest, nextID, inferenceReq, buf, toolCalls,
                   response, err, delivered, outcome, frames, pcRun, runErr,
                   pulls, pulled>>

\* --------------------------------------------------------------- GetState
\* GetState: an error without an initial request, else the state with its
\* stale flag.
GetState ==
    /\ host = "up"
    /\ stateRet' =
          IF initialRequest = <<>>
          THEN [called |-> TRUE, err |-> "no initial session", Stale |-> FALSE]
          ELSE [called |-> TRUE, err |-> "",
                Stale |-> StaleFlag(lastActivity, now, instanceTTL)]
    /\ UNCHANGED <<varsController, varsCallers, varsOther, varsLifecycle, host, proc, pcWait, pcMain,
                   workCh, currentRequest, nextID, inferenceReq, buf,
                   toolCalls, response, err, delivered, outcome, frames, now,
                   lastActivity, instanceTTL, initialRequest>>

\* A second passes.
Tick ==
    /\ now < MaxTime
    /\ now' = now + 1
    /\ UNCHANGED <<varsController, varsCallers, varsOther, varsLifecycle, host, proc, pcWait, pcMain,
                   workCh, currentRequest, nextID, inferenceReq, buf,
                   toolCalls, response, err, delivered, outcome, frames,
                   lastActivity, instanceTTL, initialRequest, stateRet>>

RunStep ==
    \/ RunFailsToStart
    \/ RunStartsSubprocess
    \/ ProbeNotReady
    \/ ProbeSleepOver
    \/ ProbeReady
    \/ ProbeTimeout
    \/ \E n \in 0..MaxWarmup : StartWarmup(n)
    \/ \E e \in {"", "pull failed"} : PullReturns(e)
    \/ RunChecksPullError

MainLoopStep ==
    \/ MainLoopCancelled
    \/ ReceiveClosed
    \/ GetNextRequestNone
    \/ SleepOver
    \/ \E stream \in BOOLEAN : GetNextRequestSession(stream)
    \/ SendWork
    \/ ReceiveWork
    \/ OpenStream
    \/ \E e \in TransportErrors : CallFails(e)
    \/ \E d \in Deltas : RecvDelta(d)
    \/ RecvEOF
    \/ StreamResult
    \/ \E e \in TransportErrors : RecvError(e)
    \/ \E c \in Completions, ms \in Durations : BlockingCall(c, ms)
    \/ BlockingResult
    \/ HandleError
    \/ ClearCurrentRequest

WaitGoroutineStep ==
    \/ \E state \in {"exitedOk", "exitedErr"} : SubprocessExits(state)
    \/ WaitReturns
    \/ WaitChecksCurrentRequest
    \/ WaitErrorSession

StopStep == \E kill \in KillProcessTreeOutcomes : Stop(kill)

\* ---------------------------------------------------------- specifications
\* The controller with an empty queue; the model instance stands still.
InitQueue ==
    /\ sessionQueue = <<>>
    /\ store = <<>>
    /\ lastCall = NoCall
    /\ InitCallers
    /\ InitActive
    /\ InitHistory
    /\ InitCrawler
    /\ InitRunner

PushAny == \E s \in PushPool : PushSessionQueue(s)
ShiftAny == \E f \in Filters : ShiftSessionQueue(f)

NextQueue == PushAny \/ ShiftAny

SpecQueue == InitQueue /\ [][NextQueue]_vars

\* The store holds at most one session per id, newest first.
RECURSIVE StoreLists(_)
StoreLists(n) ==
    IF n = 0 THEN {<<>>}
    ELSE LET shorter == StoreLists(n - 1) IN
         shorter \cup
         {Append(l, s) : l \in {x \in shorter : Len(x) = n - 1},
                         s \in StorePool}

DistinctIDs(l) == \A i, j \in 1..Len(l) : i # j => l[i].ID # l[j].ID

Stores == {l \in StoreLists(MaxSessionID) : DistinctIDs(l)}

InitRebuild ==
    /\ sessionQueue = <<>>
    /\ store \in Stores
    /\ lastCall = NoCall
    /\ InitCallers
    /\ InitActive
    /\ InitHistory
    /\ InitCrawler
    /\ InitRunner

\* The API pushes a stored session; a runner asks for any work.
PushStored == \E i \in 1..Len(store) : PushSessionQueue(store[i])
ShiftNext == ShiftSessionQueue([Mode |-> "", Type |-> "", ModelName |-> "", LoraDir |-> ""])

NextRebuild ==
    \/ loadSessionQueues
    \/ loadSessionQueuesStoreError
    \/ PushStored
    \/ ShiftNext

SpecRebuild == InitRebuild /\ [][NextRebuild]_vars

\* Goroutines calling the controller concurrently.
InitCallersSpec ==
    /\ sessionQueue = <<>>
    /\ store = CallerStore
    /\ lastCall = NoCall
    /\ InitCallers
    /\ InitActive
    /\ InitHistory
    /\ InitCrawler
    /\ InitRunner

NextCallers ==
    \/ \E c \in Callers, f \in CallerFilters : CallShift(c, f)
    \/ \E c \in Callers, session \in CallerSessions : CallPush(c, session)
    \/ \E c \in Callers : CallLoad(c)
    \/ \E c \in Callers : ShiftLocksAndScans(c)
    \/ \E c \in Callers : ShiftRemovesAndUnlocks(c)
    \/ \E c \in Callers : PushLocksAndBuilds(c)
    \/ \E c \in Callers : PushAssignsAndUnlocks(c)
    \/ \E c \in Callers : LoadLocksAndBuilds(c)
    \/ \E c \in Callers : LoadAssignsAndUnlocks(c)

SpecCallers == InitCallersSpec /\ [][NextCallers]_vars

\* GetState as a function of the instance's fields and of the clock: the
\* fields it reads are drawn from their ranges, then time passes.
InitGetState ==
    /\ sessionQueue = <<>>
    /\ store = <<>>
    /\ lastCall = NoCall
    /\ InitCallers
    /\ InitActive
    /\ InitHistory
    /\ InitCrawler
    /\ InitProcess
    /\ now \in 1..MaxTime
    /\ lastActivity \in {ZeroTime} \cup 1..now
    /\ instanceTTL \in 0..MaxTTL
    /\ initialRequest \in {<<>>, <<Request(1, FALSE)>>}
    /\ stateRet = NoState

NextGetState == Tick \/ GetState

SpecGetState == InitGetState /\ [][NextGetState]_vars

\* The model instance with a controller that stands still.
InitInstance ==
    /\ sessionQueue = <<>>
    /\ store = <<>>
    /\ lastCall = NoCall
    /\ InitCallers
    /\ InitActive
    /\ InitHistory
    /\ InitCrawler
    /\ InitRunner

NextRunner == RunStep \/ MainLoopStep \/ WaitGoroutineStep \/ StopStep

SpecRunner == InitInstance /\ [][NextRunner]_vars

\* The same with the scheduling of the goroutines: the main loop and the
\* cmd.Wait goroutine take their next step when they can, and the deadline of
\* startCtx passes.  When the subprocess exits and whether Stop is called is
\* not the instance's doing.
SpecRunnerFair ==
    /\ InitInstance /\ [][NextRunner]_vars
    /\ WF_vars(MainLoopStep)
    /\ WF_vars(WaitReturns)
    /\ WF_vars(WaitChecksCurrentRequest)
    /\ WF_vars(WaitErrorSession)
    /\ WF_vars(ProbeTimeout)

\* The model instance next to the clock: Run starts the subprocess and the
\* main loop without a warm-up, the subprocess stays up, requests are
\* answered in one piece or fail, time passes in between and GetState is
\* called at any point.
InitActivity ==
    /\ sessionQueue = <<>>
    /\ store = <<>>
    /\ lastCall = NoCall
    /\ InitCallers
    /\ InitActive
    /\ InitHistory
    /\ InitCrawler
    /\ InitProcess
    /\ now = 1
    /\ lastActivity = now
    /\ instanceTTL \in {1, MaxTTL}
    /\ initialRequest = <<>>
    /\ stateRet = NoState

NextActivity ==
    \/ RunStartsSubprocess
    \/ ProbeReady
    \/ StartWarmup(0)
    \/ RunChecksPullError
    \/ MainLoopCancelled
    \/ ReceiveClosed
    \/ GetNextRequestNone
    \/ SleepOver
    \/ GetNextRequestSession(FALSE)
    \/ SendWork
    \/ ReceiveWork
    \/ \E e \in TransportErrors : CallFails(e)
    \/ \E c \in Completions, ms \in Durations : BlockingCall(c, ms)
    \/ BlockingResult
    \/ HandleError
    \/ ClearCurrentRequest
    \/ StopStep
    \/ Tick
    \/ GetState

SpecActivity == InitActivity /\ [][NextActivity]_vars

\* The worker-response handler of the controller: the store holds one session
\* per id, newest first, and the sessions handed to workers come from it.
ActiveStores ==
    {l \in [1..MaxSessionID -> ActivePool] :
        \A i \in 1..MaxSessionID : l[i].ID = MaxSessionID + 1 - i}

InitResponses ==
    /\ sessionQueue = <<>>
    /\ store \in ActiveStores
    /\ lastCall = NoCall
    /\ InitCallers
    /\ InitActive
    /\ InitHistory
    /\ InitCrawler
    /\ InitRunner

NextResponses ==
    \/ \E i \in 1..Len(store), lookup \in StreamLookups :
           AddActiveSession(store[i], lookup)
    \/ \E id \in SessionIDs : RemoveActiveSession(id)
    \/ \E id \in SessionIDs : RemoveActiveTextStream(id)
    \/ \E r \in TaskResponses : HandleWorkerResponse(r)

SpecResponses == InitResponses /\ [][NextResponses]_vars

\* The scheduler goes down and comes up again over a store of one session
\* per id, newest first.  It starts with the queue its start-up load has built.
RecoveryStores ==
    {l \in [1..MaxSessionID -> StorePool] :
        \A i \in 1..MaxSessionID : l[i].ID = MaxSessionID + 1 - i}

InitRecovery ==
    /\ store \in RecoveryStores
    /\ sessionQueue = LoadLoop(store, Len(store), LoadStart(<<>>))
    /\ lastCall = NoCall
    /\ InitCallers
    /\ InitActive
    /\ InitHistory
    /\ InitCrawler
    /\ InitRunner

NextRecovery ==
    \/ ShiftNext
    \/ PushStored
    \/ Restart
    \/ loadSessionQueues

SpecRecovery == InitRecovery /\ [][NextRecovery]_vars

\* ConvertSessionToTask as a function of the session and of what the model
\* package answers, next to a queue that holds a session or none.
ConvertPool ==
    PushPool \cup
    {Session(id, "Finetune", "Image", "m2", "", <<CreatorTypeUser>>) : id \in SessionIDs}

ConvertInputs == {<<>>} \cup {<<s>> : s \in ConvertPool}

InitConvert ==
    /\ sessionQueue \in {<<>>} \cup {<<s>> : s \in PushPool}
    /\ store = <<>>
    /\ lastCall = NoCall
    /\ InitCallers
    /\ InitActive
    /\ InitHistory
    /\ InitCrawler
    /\ InitRunner

NextConvert ==
    \E session \in ConvertInputs, lookup \in ModelLookups :
        ConvertSessionToTask(session, lookup)

SpecConvert == InitConvert /\ [][NextConvert]_vars

\* addJobToHistory on an instance with every buffer size.
InitJobHistory ==
    /\ sessionQueue = <<>>
    /\ store = <<>>
    /\ lastCall = NoCall
    /\ InitCallers
    /\ InitActive
    /\ InitRunner
    /\ jobHistory = <<>>
    /\ jobHistoryBufferSize \in 0..MaxHistory
    /\ historyRet = NoHistoryCall
    /\ InitCrawler

NextJobHistory == \E result \in SummaryResults : addJobToHistory(result)

SpecJobHistory == InitJobHistory /\ [][NextJobHistory]_vars

\* ------------------------------------------------ the crawler's page limit
\* Every crawler setting, and Crawl applied to it.
InitCrawl ==
    /\ sessionQueue = <<>>
    /\ store = <<>>
    /\ lastCall = NoCall
    /\ InitCallers
    /\ InitActive
    /\ InitRunner
    /\ InitHistory
    /\ crawler \in CrawlerSettings
    /\ crawlRet = NoCrawl

NextCrawl == Crawl

SpecCrawl == InitCrawl /\ [][NextCrawl]_vars

\* ---------------------------------------------------------------- claims
\* C1: PushSessionQueue with an id already queued replaces that entry at its
\* index, keeping the length and every other entry; with a new id it appends
\* the session at the tail and changes nothing else.
PushReplacesInPlaceOrAppends ==
    [][\A s \in PushPool : (lastCall'.op = "push" /\ PushSessionQueue(s)) =>
        IF \E i \in 1..Len(sessionQueue) : sessionQueue[i].ID = s.ID
        THEN /\ Len(sessionQueue') = Len(sessionQueue)
             /\ \A i \in 1..Len(sessionQueue) :
                    sessionQueue'[i] =
                        IF sessionQueue[i].ID = s.ID THEN s ELSE sessionQueue[i]
        ELSE sessionQueue' = sessionQueue \o <<s>>]_vars

\* Push(s1 v1), Push(s2), Push(s1 v2) has left [s1 v2, s2].
PushReplacedWitness ==
    /\ lastCall.op = "push" /\ lastCall.existing
    /\ sessionQueue =
         << Session(1, "Create", "Image", "m1", "lora1", <<CreatorTypeUser>>),
            Session(2, "Create", "Text", "m1", "", <<CreatorTypeUser>>) >>

\* Smallest queue index whose session passes the scan's filter test, 0 if none.
FirstMatch(q, f) ==
    IF \E i \in 1..Len(q) : SessionMatches(f, q[i])
    THEN CHOOSE i \in 1..Len(q) :
            /\ SessionMatches(f, q[i])
            /\ \A j \in 1..(i - 1) : ~SessionMatches(f, q[j])
    ELSE 0

FilterAccepts(f, s) ==
    /\ f.Mode = "" \/ f.Mode = s.Mode
    /\ f.Type = "" \/ f.Type = s.Type
    /\ f.ModelName = "" \/ f.ModelName = s.ModelName
    /\ f.LoraDir = "" \/ f.LoraDir = s.LoraDir

\* C4: a session matches a filter iff each of mode, type, model name and
\* adapter directory is empty in the filter or equal to the session's value:
\* a Shift returns the first session the four-field relation accepts, and
\* never one whose adapter directory differs from a non-empty filter value.
ShiftHonoursFourFields ==
    [][\A f \in Filters : ShiftSessionQueue(f) =>
        /\ \A i \in 1..Len(lastCall'.ret) : FilterAccepts(f, lastCall'.ret[i])
        /\ lastCall'.ret = <<>> =>
              \A i \in 1..Len(sessionQueue) : ~FilterAccepts(f, sessionQueue[i])
      ]_vars

\* The store-visible sessions awaiting a response, oldest first.
RECURSIVE Reverse(_)
Reverse(l) == IF l = <<>> THEN <<>> ELSE Append(Reverse(Tail(l)), Head(l))

AwaitingResponse(s) ==
    /\ s.Interactions # <<>>
    /\ s.Interactions[Len(s.Interactions)] = CreatorTypeUser

\* C5: after a successful loadSessionQueues the queue is the store's list
\* reversed and restricted to the sessions whose last interaction is the
\* User's; what the queue held before is gone.
RebuildIsReversedPending ==
    [][(lastCall'.op = "load" /\ ~lastCall'.err) =>
          sessionQueue' = Reverse(SelectSeq(store, AwaitingResponse))
      ]_vars

\* The store [s1(User), s2(System), s3(User)] has been loaded: the queue is
\* [s3, s1].
RebuildWitness ==
    /\ lastCall.op = "load" /\ ~lastCall.err
    /\ Len(store) = 3
    /\ store[1].ID = 1 /\ store[1].Interactions = <<CreatorTypeUser>>
    /\ store[2].ID = 2 /\ store[2].Interactions = <<CreatorTypeUser, CreatorTypeSystem>>
    /\ store[3].ID = 3 /\ store[3].Interactions = <<CreatorTypeUser>>
    /\ sessionQueue = <<store[3], store[1]>>

\* C6: with an unchanged store, a second loadSessionQueues directly after a
\* successful one leaves the queue as the first left it.
RebuildIdempotent ==
    [][(/\ lastCall.op = "load" /\ ~lastCall.err
        /\ lastCall'.op = "load" /\ ~lastCall'.err
        /\ store' = store) => sessionQueue' = sessionQueue
      ]_vars

\* Two loads in a row over a store with at least two pending sessions.
RebuildTwiceWitness ==
    /\ lastCall.op = "load" /\ ~lastCall.err /\ lastCall.repeat
    /\ Len(sessionQueue) >= 2

\* ------------------------------------------------- claims, model instance
\* The main loop is done with the request: it has cleared currentRequest, or
\* it has ended the runner process.
RequestSettled ==
    /\ outcome # "none"
    /\ pcMain \in {"select", "sleep", "send", "exited"} \/ host = "exit1"

ResultFrames ==
    {i \in 1..Len(frames) : frames[i].Type = WorkerTaskResponseTypeResult}

IsStreamDone(f) ==
    f.Type = WorkerTaskResponseTypeStream /\ f.Done /\ f.Message = ""

NoErrorFrame == \A i \in 1..Len(frames) : frames[i].Error = ""

\* C7: for every processed request the frames handed to the response handler
\* hold exactly one frame of type Result, and it is the last frame.
ExactlyOneResultFrameLast ==
    RequestSettled =>
        /\ Cardinality(ResultFrames) = 1
        /\ frames[Len(frames)].Type = WorkerTaskResponseTypeResult

\* C8: a failed request gets a single Result frame with done=true and the
\* stringified error, and no frame after it.
FailureIsOneDoneResultFrame ==
    (RequestSettled /\ outcome = "err") =>
        /\ Cardinality(ResultFrames) = 1
        /\ \A i \in ResultFrames :
              /\ i = Len(frames)
              /\ frames[i].Done
              /\ frames[i].Error = err /\ frames[i].Error # ""

\* C9: for a request that completed without error the Result frame is
\* directly preceded by the one stream-done frame (type Stream, done, empty
\* message); a non-streaming request emits these two frames and nothing else.
StreamDoneDirectlyBeforeResult ==
    (RequestSettled /\ outcome = "ok" /\ NoErrorFrame) =>
        LET n == Len(frames) IN
        /\ n >= 2
        /\ frames[n].Type = WorkerTaskResponseTypeResult
        /\ IsStreamDone(frames[n - 1])
        /\ Cardinality({i \in 1..n : IsStreamDone(frames[i])}) = 1
        /\ ~inferenceReq.Stream => n = 2

\* A non-streaming request has completed with its two frames.
BlockingCompletedWitness ==
    /\ RequestSettled /\ outcome = "ok" /\ NoErrorFrame
    /\ ~inferenceReq.Stream
    /\ Len(frames) = 2 /\ frames[2].Message = "hello"

RECURSIVE ConcatContents(_)
ConcatContents(ds) ==
    IF ds = <<>> THEN "" ELSE Head(ds).Content \o ConcatContents(Tail(ds))

\* C10: a streaming request whose stream delivered d1..dn and then ended has
\* the frames Stream(d1), ..., Stream(dn) (done=false), the stream-done frame
\* and the Result frame (done=true) with the message d1+...+dn, in this
\* order; no Stream frame follows the Result frame.
StreamFramesInDeliveryOrder ==
    (RequestSettled /\ outcome = "ok" /\ NoErrorFrame /\ inferenceReq.Stream) =>
        LET n == Len(delivered) IN
        /\ Len(frames) = n + 2
        /\ \A i \in 1..n :
              /\ frames[i].Type = WorkerTaskResponseTypeStream
              /\ ~frames[i].Done
              /\ frames[i].Message = delivered[i].Content
        /\ IsStreamDone(frames[n + 1])
        /\ frames[n + 2].Type = WorkerTaskResponseTypeResult
        /\ frames[n + 2].Done
        /\ frames[n + 2].Message = ConcatContents(delivered)

\* The stream delivered "he", "llo" and ended; the Result frame says "hello".
StreamHelloWitness ==
    /\ RequestSettled /\ outcome = "ok" /\ NoErrorFrame /\ inferenceReq.Stream
    /\ Len(delivered) = 2
    /\ delivered[1].Content = "he" /\ delivered[2].Content = "llo"
    /\ frames[4].Message = "hello"

\* The tool calls of the deltas, in arrival order.
RECURSIVE DeltaToolCalls(_)
DeltaToolCalls(ds) ==
    IF ds = <<>> THEN <<>> ELSE Head(ds).ToolCalls \o DeltaToolCalls(Tail(ds))

\* The argument fragments that carry the id, concatenated in arrival order.
RECURSIVE ConcatArguments(_, _)
ConcatArguments(calls, id) ==
    IF calls = <<>> THEN ""
    ELSE (IF Head(calls).ID = id THEN Head(calls).Arguments ELSE "")
         \o ConcatArguments(Tail(calls), id)

\* The name carried by a call with the id, "" when none carries one.
NameCarried(calls, id) ==
    IF \E k \in 1..Len(calls) : calls[k].ID = id /\ calls[k].Name # ""
    THEN calls[CHOOSE k \in 1..Len(calls) :
                   calls[k].ID = id /\ calls[k].Name # ""].Name
    ELSE ""

\* C11: the Result frame of a streaming request lists one tool call per
\* distinct id of the deltas' tool calls, with the name carried for the id
\* and the argument fragments concatenated in arrival order.
ToolCallDeltasMergedPerID ==
    (RequestSettled /\ outcome = "ok" /\ NoErrorFrame /\ inferenceReq.Stream) =>
        LET calls == DeltaToolCalls(delivered)
            ids == {calls[k].ID : k \in 1..Len(calls)}
            result == frames[Len(frames)].ToolCalls
        IN /\ Len(result) = Cardinality(ids)
           /\ \A id \in ids : \E k \in 1..Len(result) :
                 result[k] = ToolCall(id, NameCarried(calls, id),
                                      ConcatArguments(calls, id))

\* The Result frames that report the subprocess's exit error with the tail
\* of its stderr.
SubprocessErrorFrames ==
    {i \in ResultFrames :
        /\ frames[i].Error = ExitError \o " from cmd - " \o StderrTail
        /\ frames[i].SessionID = exitedDuring}

\* C12: when the subprocess exits with an error while a request is in
\* flight, finishCh is closed only after a Result frame with the exit error
\* and the stderr tail was handed over for that request, and that frame is
\* the request's only Result frame.
SubprocessErrorReportedOnce ==
    (exitedDuring # 0 /\ inferenceReq.SessionID = exitedDuring
        /\ pcWait = "done") =>
        /\ Cardinality(SubprocessErrorFrames) = 1
        /\ RequestSettled => Cardinality(ResultFrames) = 1

\* C13: the work channel never holds more than one request; the get-next
\* hook is called only when no pulled request is waiting to be sent or
\* received and none is being processed, and the request pulled before has
\* been processed to completion.
PullsOneRequestAtATime ==
    [][/\ Len(workCh') + Len(pulled') <= 1
       /\ nextID' # nextID =>
             /\ workCh = <<>> /\ pulled = <<>>
             /\ currentRequest = <<>> /\ pcMain = "select"
             /\ nextID > 1 =>
                   inferenceReq.SessionID = nextID - 1 /\ outcome # "none"]_vars

\* The second request waits in the channel after the first was completed.
SecondRequestQueuedWitness ==
    /\ Len(workCh) = 1 /\ workCh[1].SessionID = 2
    /\ inferenceReq.SessionID = 1 /\ outcome = "ok"
    /\ currentRequest = <<>>

\* How many entries of the queue carry the id.
Queued(id) ==
    Cardinality({k \in 1..Len(sessionQueue) : sessionQueue[k].ID = id})

StopWithoutSubprocessOnlyFails ==
    [][proc = "none" =>
          /\ ~workChClosed' /\ ~cancelled' /\ host' = "up"
          /\ stopRet' # stopRet =>
                /\ stopRet' = "noProcess" /\ proc' = "none"
                /\ UNCHANGED <<pcRun, pcMain, pcWait, workCh, currentRequest,
                               frames>>]_vars

\* Run failed before it could start the subprocess, then Stop was called.
StopAfterFailedStartWitness ==
    /\ pcRun = "retStartError" /\ proc = "none"
    /\ stopRet = "noProcess" /\ ~workChClosed /\ ~cancelled

\* C17: once a subprocess was started, a Stop that follows a successful
\* Stop or the death of the subprocess does not panic (it does not close the
\* closed work channel) and leaves the stopped state as it is.
RepeatedStopIsHarmless ==
    [][((\E kill \in KillProcessTreeOutcomes : Stop(kill))
          /\ proc # "none" /\ (stopRet = "ok" \/ proc # "running")) =>
          /\ host' = "up"
          /\ stopRet = "ok" =>
                workChClosed' /\ cancelled' /\ proc' = proc]_vars

\* C18: after a successful Stop the subprocess is dead, the work channel
\* closed and the context cancelled; if the main loop was running (also in
\* the middle of a request) it exits and finishCh is closed, eventually.
StopEndsMainLoopAndClosesFinish ==
    /\ [](stopRet = "ok" => proc # "running" /\ workChClosed /\ cancelled)
    /\ (stopRet = "ok" /\ proc = "killed" /\ pcMain # "none")
          ~> (pcMain = "exited" /\ pcWait = "done")

\* C19: when the readiness poll ends with the timeout, Run has returned the
\* start failure, the main loop was not started and no frame was emitted;
\* finishCh is closed, eventually.
ReadinessTimeoutClosesFinish ==
    /\ [](pcRun = "retTimeout" => pcMain = "none" /\ frames = <<>>)
    /\ (pcRun \in {"probe", "probeSleep"})
          ~> (pcRun \in {"retTimeout", "warmup"})
    /\ (pcRun = "retTimeout") ~> (pcWait = "done")

\* The error texts that mention a refused connection.
RefusedErrors ==
    {"dial tcp: connection refused",
     "failed to get response from inference API: dial tcp: connection refused"}

\* C20: the runner process exits from the main loop only for an error that
\* mentions "connection refused", and only after the Result frame with that
\* error was handed over for the request; a request that failed with such an
\* error ends the process, one that failed with another error does not.
ExitOnlyAfterRefusedErrorFrame ==
    /\ host = "exit1" =>
          /\ err \in RefusedErrors
          /\ \E i \in ResultFrames :
                /\ frames[i].Error = err
                /\ frames[i].SessionID = inferenceReq.SessionID
    /\ outcome = "err" => (host = "exit1" <=> err \in RefusedErrors)

\* The call failed with "connection refused"; the process has exited and the
\* error frame is the last thing it handed over.
ExitedAfterRefusedWitness ==
    /\ host = "exit1" /\ err \in RefusedErrors
    /\ Len(frames) >= 1
    /\ frames[Len(frames)].Type = WorkerTaskResponseTypeResult
    /\ frames[Len(frames)].Error = err

\* ------------------------------------------------- claims on worker responses
\* The handler has answered a frame, and the answer differs from the last one.
HandlerAnswered == responseRet' # responseRet /\ responseRet'.called

\* C21: when the handler takes a frame for an active Create/Text session, a
\* Stream frame appends its delta to the message of the session's trailing
\* interaction and persists the session in the store, and a Result frame marks
\* the trailing interaction finished and persists it.
FramesAppliedToTrailingInteraction ==
    [][ (/\ HandlerAnswered
         /\ responseRet'.frame[1].SessionID \in DOMAIN activeSessions
         /\ activeSessions[responseRet'.frame[1].SessionID].Mode = "Create"
         /\ activeSessions[responseRet'.frame[1].SessionID].Type = "Text")
        => LET f == responseRet'.frame[1]
               before == activeSessions[f.SessionID]
               after == activeSessions'[f.SessionID]
               n == Len(before.Interactions)
           IN  /\ f.SessionID \in DOMAIN activeSessions'
               /\ IF f.Type = WorkerTaskResponseTypeStream
                  THEN after.Interactions[n].Message =
                           before.Interactions[n].Message \o f.Message
                  ELSE after.Interactions[n].Finished
               /\ \E i \in 1..Len(store') : store'[i] = after ]_vars

\* C22: a frame for a session id that is not in the active-session map is
\* dropped: the handler answers "session not found" and leaves the queue,
\* the store, the active sessions and the text streams as they were.
UnknownSessionResponseDropped ==
    [][ (/\ HandlerAnswered
         /\ responseRet'.frame[1].SessionID \notin DOMAIN activeSessions)
        => /\ responseRet'.resp = <<>>
           /\ responseRet'.err = "session not found"
           /\ UNCHANGED <<sessionQueue, store, activeSessions, activeTextStreams>>
      ]_vars

\* A frame for a session that is no longer active, while its text stream and
\* another session are, has been answered.
UnknownSessionDroppedWitness ==
    /\ responseRet.called
    /\ responseRet.err = "session not found"
    /\ responseRet.frame[1].SessionID \notin DOMAIN activeSessions
    /\ responseRet.frame[1].SessionID \in activeTextStreams
    /\ DOMAIN activeSessions # {}

\* ------------------------------------------------------- claims on recovery
\* loadSessionQueues has returned without an error.
LoadReturned == lastCall'.op = "load" /\ ~lastCall'.err

QueuedAfter(id) == \E k \in 1..Len(sessionQueue') : sessionQueue'[k].ID = id

\* C23: after a restart, loadSessionQueues puts every session the store still
\* awaits a response for back in the queue, the ones that were shifted off the
\* queue before the scheduler went down included.
ShiftedSessionsRequeuedAfterRestart ==
    [][ LoadReturned =>
          /\ \A id \in inFlightAtCrash : QueuedAfter(id)
          /\ \A i \in 1..Len(store) :
                 AwaitingResponse(store[i]) =>
                     \E k \in 1..Len(sessionQueue') : sessionQueue'[k] = store[i]
      ]_vars

\* Every stored session awaits a response, one of them was off the queue when
\* the scheduler went down, and the load after the restart has queued all.
ShiftedSessionRequeuedWitness ==
    /\ lastCall.op = "load"
    /\ Cardinality(inFlightAtCrash) = 1
    /\ \A i \in 1..Len(store) : AwaitingResponse(store[i])
    /\ Len(sessionQueue) = Len(store)

StoreIndex(s) == CHOOSE i \in 1..Len(store) : store[i] = s

\* C24: loadSessionQueues passes over a stored session without interactions:
\* it returns no error, no session of the rebuilt queue has an empty
\* interaction list, and the sessions it queues are the store's in
\* oldest-first order.
EmptySessionsSkippedByLoad ==
    [][ (lastCall'.op = "load"
         /\ \E i \in 1..Len(store) : store[i].Interactions = <<>>)
        => /\ ~lastCall'.err
           /\ \A k \in 1..Len(sessionQueue') :
                  /\ sessionQueue'[k].Interactions # <<>>
                  /\ \E i \in 1..Len(store) : store[i] = sessionQueue'[k]
           /\ \A k, l \in 1..Len(sessionQueue') :
                  k < l => StoreIndex(sessionQueue'[k]) > StoreIndex(sessionQueue'[l])
           /\ \A i \in 1..Len(store) :
                  AwaitingResponse(store[i]) => QueuedAfter(store[i].ID) ]_vars

\* The store holds a session without interactions between two that await a
\* response; the load has queued the older of the two first.
EmptySessionSkippedWitness ==
    /\ lastCall.op = "load"
    /\ Len(store) >= 3
    /\ store[2].Interactions = <<>>
    /\ AwaitingResponse(store[1])
    /\ AwaitingResponse(store[3])
    /\ Len(sessionQueue) >= 2
    /\ sessionQueue[1] = store[3]
    /\ \E k \in 2..Len(sessionQueue) : sessionQueue[k] = store[1]

\* --------------------------------------------------- claims on last activity
\* C25: the main loop sets lastActivity to the current time when it takes a
\* request for processing and again when the processing has finished, with
\* success or with an error.
LastActivitySetBeforeAndAfterProcessing ==
    [][ /\ (currentRequest = <<>> /\ currentRequest' # <<>>) => lastActivity' = now'
        /\ (currentRequest # <<>> /\ currentRequest' = <<>>) => lastActivity' = now'
      ]_vars

\* C26: a stale instance is left running: while it is stale nothing but a
\* Stop cancels the context, closes the work channel or kills the subprocess,
\* and the main loop ends only after a Stop has done that.
StaleInstanceKeepsRunning ==
    [][ Stale =>
          /\ (\/ cancelled' # cancelled
              \/ workChClosed' # workChClosed
              \/ (proc' = "killed" /\ proc # "killed"))
             => \E kill \in KillProcessTreeOutcomes : Stop(kill)
          /\ (pcMain' = "exited" /\ pcMain # "exited") => (cancelled \/ workChClosed)
      ]_vars

\* A stale instance that nobody stopped has answered its first request and
\* holds the next one it pulled.
StaleInstancePulledWitness ==
    /\ Stale
    /\ host = "up" /\ proc = "running"
    /\ ~cancelled /\ ~workChClosed
    /\ pcMain = "send"
    /\ pulled # <<>>
    /\ Since(lastActivity, now) > instanceTTL + 1
    /\ outcome = "ok"

\* ------------------------------------------------------- claims on polling
\* C27: while the instance is not stopped, a poll that brought nothing is
\* followed by another poll after the sleep, and a request the poll brought
\* is put on the work channel and processed: frames for it are handed to the
\* response handler.
PolledRequestEventuallyAnswered ==
    /\ (pcMain = "sleep") ~> (pcMain = "select" \/ cancelled)
    /\ \A n \in 1..MaxRequests :
           (pulled # <<>> /\ pulled[1].SessionID = n)
               ~> (\/ cancelled
                   \/ (inferenceReq.SessionID = n /\ frames # <<>>))

\* --------------------------------------------------- claims on job history
\* C28: the job history never holds more than JobHistoryBufferSize entries;
\* an addJobToHistory that succeeded has put its summary at index 0, in front
\* of the entries that were there, and has dropped the last of them if the
\* list had outgrown the buffer size.
JobHistoryBoundedNewestFirst ==
    [][ /\ Len(jobHistory) <= jobHistoryBufferSize
        /\ Len(jobHistory') <= jobHistoryBufferSize
        /\ (historyRet'.called /\ historyRet'.err = "")
           => LET summary == historyRet'.result[1].summary
                  longer == <<summary>> \o jobHistory
              IN  /\ jobHistoryBufferSize >= 1 => jobHistory'[1] = summary
                  /\ jobHistory' = SubSeq(longer, 1, Len(jobHistory'))
                  /\ Len(jobHistory') =
                         IF Len(longer) > jobHistoryBufferSize
                         THEN Len(longer) - 1 ELSE Len(longer) ]_vars

\* A full history of different summaries, the last one added in front.
JobHistoryFullWitness ==
    /\ historyRet.called /\ historyRet.err = ""
    /\ jobHistoryBufferSize >= 2
    /\ Len(jobHistory) = jobHistoryBufferSize
    /\ jobHistory[1] = historyRet.result[1].summary
    /\ \A k \in 2..Len(jobHistory) : jobHistory[k] # jobHistory[1]

\* ------------------------------------------------ claims on currentRequest
\* The next step of the cmd.Wait goroutine reads i.currentRequest.
WaitGoroutineReadsNext == ENABLED WaitChecksCurrentRequest \/ ENABLED WaitErrorSession

\* The next step of the main loop writes i.currentRequest.
MainLoopWritesNext == ENABLED ReceiveWork \/ ENABLED ClearCurrentRequest

\* C29: i.currentRequest is the main loop's alone: the cmd.Wait goroutine is
\* never about to read it while the main loop is about to write it, and the
\* field is non-nil exactly while the main loop processes a request.
CurrentRequestOwnedByMainLoop ==
    /\ ~(WaitGoroutineReadsNext /\ MainLoopWritesNext)
    /\ (currentRequest # <<>>) <=>
           pcMain \in {"process", "recv", "streamResult", "blockingResult",
                       "failed", "clear"}

\* ------------------------------------------- claims on ConvertSessionToTask
NoTaskNoError(t) == t.task = <<>> /\ t.err = ""

TaskOf(t) ==
    /\ t.task # <<>>
    /\ t.err = ""
    /\ t.task[1].SessionID = t.session[1].ID
    /\ t.task[1].Session = t.session[1]
    /\ t.task[1].Prompt = t.lookup[1].prompt

LookupFailed(t) == t.lookup[1].modelErr # "" \/ t.lookup[1].promptErr # ""

\* C30 as stated: ConvertSessionToTask answers nil, nil for a nil session and
\* for a Finetune session, answers every Create/Text and Create/Image session
\* with a task that carries the session's id and the prompt its model
\* rendered, and leaves the queue alone.
ConvertAnswersEveryCreateSession ==
    [][ (taskRet' # taskRet) =>
          /\ UNCHANGED sessionQueue
          /\ IF taskRet'.session = <<>> THEN NoTaskNoError(taskRet')
             ELSE IF taskRet'.session[1].Mode = "Finetune" THEN NoTaskNoError(taskRet')
             ELSE TaskOf(taskRet') ]_vars

\* C30, amended: ConvertSessionToTask answers nil, nil for a nil session and
\* for a Finetune session; it answers a Create/Text or Create/Image session
\* with a task that carries the session's id and the rendered prompt when the
\* model is found and the prompt renders, and with no task and the error
\* otherwise; it leaves the queue alone.
ConvertAnswersCreateSessionOrFails ==
    [][ (taskRet' # taskRet) =>
          /\ UNCHANGED sessionQueue
          /\ IF taskRet'.session = <<>> THEN NoTaskNoError(taskRet')
             ELSE IF taskRet'.session[1].Mode = "Finetune" THEN NoTaskNoError(taskRet')
             ELSE IF LookupFailed(taskRet')
             THEN /\ taskRet'.task = <<>>
                  /\ taskRet'.err \in {taskRet'.lookup[1].modelErr,
                                       taskRet'.lookup[1].promptErr} \ {""}
             ELSE TaskOf(taskRet') ]_vars

\* An image session has been converted while another session was queued.
ConvertedImageSessionWitness ==
    /\ taskRet.called
    /\ taskRet.session # <<>>
    /\ taskRet.session[1].Type = "Image"
    /\ taskRet.task # <<>>
    /\ taskRet.task[1].Prompt = "p2"
    /\ sessionQueue # <<>>
    /\ sessionQueue[1].ID # taskRet.session[1].ID

\* ------------------------------------------------- claims on frame identity
\* C31: every frame handed to the response handler for a request carries the
\* request's session id, interaction id and owner.
FramesCarryRequestIdentity ==
    \A k \in 1..Len(frames) :
        /\ frames[k].SessionID = inferenceReq.SessionID
        /\ frames[k].InteractionID = inferenceReq.InteractionID
        /\ frames[k].Owner = inferenceReq.Owner

\* --------------------------------------------------- claims on queue entries
\* C32: no two entries of the session queue have the same session id.
QueueHoldsEachSessionOnce ==
    \A k, l \in 1..Len(sessionQueue) :
        sessionQueue[k].ID = sessionQueue[l].ID => k = l

\* A session that was already queued has been pushed again, next to others.
RequeuedSessionOnceWitness ==
    /\ lastCall.op = "push"
    /\ lastCall.existing
    /\ Len(sessionQueue) >= 2

\* ---------------------------------------------- claims on Stop and the loop
\* C33: the main loop never executes its send of a pulled request on the work
\* channel after Stop has closed the channel.
MainLoopNeverSendsOnClosedChannel ==
    [][ ~(SendWork /\ workChClosed) ]_vars

\* C34: once Stop has closed the work channel and cancelled the context, the
\* main loop takes no request from the channel: no request becomes the current
\* request and no frame is handed over for a request that had not been
\* started.
NoRequestStartedAfterStop ==
    [][ cancelled =>
          /\ ~(currentRequest = <<>> /\ currentRequest' # <<>>)
          /\ (currentRequest = <<>> /\ pcWait # "emit") => frames' = frames ]_vars

\* ------------------------------------------------------- claims on GetState
\* C35: whenever GetState is called on the instance, Stale() is true exactly
\* when GetState reports Stale = true.
StaleAgreesWithGetState ==
    [][ GetState => (Stale <=> (stateRet'.err = "" /\ stateRet'.Stale)) ]_vars

\* C36: GetState, called on the constructed instance before, during or after
\* the processing of requests, succeeds: it does not return the "no initial
\* session" error.
GetStateSucceeds ==
    stateRet.called => stateRet.err = ""

\* ------------------------------------------- claims on the active sessions
\* C37: an AddActiveSession that returned an error has left the session out
\* of activeSessions, and a RemoveActiveSession or RemoveActiveTextStream for
\* an id that is not present leaves both maps as they were.  A call of
\* AddActiveSession that leaves a Create/Text session without a text stream
\* is one whose lookup failed, which is the call that returns an error.
ActiveBookkeepingConsistent ==
    [][ /\ \A session \in ActivePool : \A lookup \in StreamLookups \ {"ok"} :
              (/\ session.Type = "Text" /\ session.Mode = "Create"
               /\ AddActiveSession(session, lookup)
               /\ session.ID \notin activeTextStreams')
                 => session.ID \notin DOMAIN activeSessions'
        /\ \A id \in SessionIDs :
              (RemoveActiveSession(id) /\ id \notin DOMAIN activeSessions)
                 => UNCHANGED <<activeSessions, activeTextStreams>>
        /\ \A id \in SessionIDs :
              (RemoveActiveTextStream(id) /\ id \notin activeTextStreams)
                 => UNCHANGED <<activeSessions, activeTextStreams>>
      ]_vars

\* ------------------------------------------------ claims on the warm-up
\* C38: once the readiness probe has succeeded, Run() returns nil and starts
\* the main loop whatever the warm-up pulls do: the check of err after the
\* warm-up goroutines were started never takes the error return.
RunOutcomeIndependentOfWarmup ==
    [][ RunChecksPullError => (pcRun' = "retNil" /\ pcMain' = "select") ]_vars

\* ------------------------------------------------ claims on the crawler
\* C39: the page limit a crawl works with never exceeds 500: it is 1 with
\* crawling disabled; with crawling enabled it is 500 when the configured
\* MaxPages is 0 or above 500, and the configured MaxPages otherwise.
CrawlPageLimitAtMost500 ==
    crawlRet.called =>
        /\ crawlRet.maxPages <= 500
        /\ ~crawlRet.Enabled => crawlRet.maxPages = 1
        /\ crawlRet.Enabled =>
              crawlRet.maxPages =
                  IF crawlRet.MaxPages = 0 \/ crawlRet.MaxPages > 500
                  THEN 500
                  ELSE crawlRet.MaxPages
====
